---- MODULE Spec2Model ----
(***************************************************************************)
(* GeoGrid: the configuration state, the hash codec, the pattern           *)
(* generator, the control handlers and the high-resolution export.         *)
(*                                                                         *)
(* Strings are sequences of one-character strings; a hash is such a        *)
(* sequence, '-' included, so that split, join, toString(36) and           *)
(* parseInt(.., 36) are computed and not assumed.                          *)
(***************************************************************************)
EXTENDS Integers, Sequences, FiniteSets, TLC

(***************************************************************************)
(* Bounds of the model.                                                    *)
(***************************************************************************)
\* largest number of '-'-separated segments of a hash typed into the load box
MaxParts == 6
\* largest grid size the grid slider delivers in the model (smallest is 2)
MaxGridSize == 2
\* number of values other consumers draw from the p5 stream between generations
MaxDraws == 2

(***************************************************************************)
(* Sentinels for JavaScript values that are not of the modelled type.      *)
(***************************************************************************)
\* null, as in state.sigColor = null (auto)
null == "null"
\* the result of parseInt when no digit can be read
NaN == -1
\* a hash argument that is not a string (undefined, null): hash.split throws
NotAString == <<"undefined">>

(***************************************************************************)
(* Theme catalog.                                                          *)
(***************************************************************************)
THEME_LIST ==
  << [id |-> "olives",        colors |-> <<"#606c38", "#283618", "#fefae0", "#dda15e", "#bc6c25">>],
     [id |-> "oceanFire",     colors |-> <<"#780000", "#c1121f", "#fdf0d5", "#003049", "#669bbc">>],
     [id |-> "summerVibes",   colors |-> <<"#8ecae6", "#219ebc", "#023047", "#ffb703", "#fb8500">>],
     [id |-> "sticky-pastell", colors |-> <<"#f6bd60", "#f7ede2", "#f5cac3", "#84a59d", "#f28482">>],
     [id |-> "autumnIsh",     colors |-> <<"#003049", "#d62828", "#f77f00", "#fcbf49", "#eae2b7">>],
     [id |-> "beachDay",      colors |-> <<"#0b1320", "#ffd166", "#06d6a0", "#118ab2", "#ef476f">>],
     [id |-> "francoPhile",   colors |-> <<"#0d1b2a", "#1b263b", "#415a77", "#E63946", "#e0e1dd">>] >>

ThemeIds == { THEME_LIST[i].id : i \in 1..Len(THEME_LIST) }

\* String.prototype.toLowerCase on the color strings of the program: the only
\* color written with upper-case letters is '#E63946'
toLowerCase(c) == IF c = "#E63946" THEN "#e63946" ELSE c

(***************************************************************************)
(* Utilities.                                                              *)
(***************************************************************************)
Min(a, b) == IF a < b THEN a ELSE b
Max(a, b) == IF a > b THEN a ELSE b

\* Math.max(lo, Math.min(hi, Math.floor(v))) on integers
clampInt(v, lo, hi) == Max(lo, Min(hi, v))

\* Array.prototype.findIndex: the 0-based index of the first entry satisfying
\* Test, -1 when there is none
FindIndex(seq, Test(_)) ==
  IF \E i \in 1..Len(seq) : Test(seq[i])
  THEN (CHOOSE i \in 1..Len(seq) : Test(seq[i]) /\ \A j \in 1..(i-1) : ~Test(seq[j])) - 1
  ELSE -1

\* the entry of a JavaScript array at a 0-based index
At(seq, i) == seq[i + 1]

(***************************************************************************)
(* Base-36 text.                                                           *)
(***************************************************************************)
Digits36 == <<"0","1","2","3","4","5","6","7","8","9",
              "a","b","c","d","e","f","g","h","i","j","k","l","m",
              "n","o","p","q","r","s","t","u","v","w","x","y","z">>
UpperLetters == <<"A","B","C","D","E","F","G","H","I","J","K","L","M",
                  "N","O","P","Q","R","S","T","U","V","W","X","Y","Z">>

\* the value of each digit character: '0'..'9' are 0..9, 'a'..'z' and
\* 'A'..'Z' are 10..35
DigitTable ==
  [ ch \in { Digits36[i] : i \in 1..36 } \cup { UpperLetters[i] : i \in 1..26 } |->
      IF \E i \in 1..36 : Digits36[i] = ch
      THEN (CHOOSE i \in 1..36 : Digits36[i] = ch) - 1
      ELSE (CHOOSE i \in 1..26 : UpperLetters[i] = ch) + 9 ]

\* the value of a character as a base-36 digit, -1 when it is none
DigitValue(ch) == IF ch \in DOMAIN DigitTable THEN DigitTable[ch] ELSE -1

\* Number.prototype.toString(36) of a non-negative integer
RECURSIVE toString36(_)
toString36(n) ==
  IF n < 36 THEN <<Digits36[n + 1]>>
  ELSE toString36(n \div 36) \o <<Digits36[(n % 36) + 1]>>

\* the value of a sequence of base-36 digit characters
RECURSIVE DigitsValue(_)
DigitsValue(ds) ==
  IF ds = <<>> THEN 0
  ELSE 36 * DigitsValue(SubSeq(ds, 1, Len(ds) - 1)) + DigitValue(ds[Len(ds)])

\* the longest prefix of str made of base-36 digits
RECURSIVE DigitPrefix(_)
DigitPrefix(str) ==
  IF str = <<>> \/ DigitValue(str[1]) < 0 THEN <<>>
  ELSE <<str[1]>> \o DigitPrefix(Tail(str))

\* leading white space removed
RECURSIVE TrimStart(_)
TrimStart(str) ==
  IF str # <<>> /\ str[1] = " " THEN TrimStart(Tail(str)) ELSE str

\* parseInt(str, 36): white space and one '+' sign are skipped, the longest
\* digit prefix is read, NaN when it is empty.  An undefined argument (a
\* missing array entry) reads as "undefined", whose digit prefix is
\* "undefined" itself; the code never passes one.
parseInt36(str) ==
  LET t  == TrimStart(str)
      u  == IF t # <<>> /\ t[1] = "+" THEN Tail(t) ELSE t
      ds == DigitPrefix(u)
  IN  IF ds = <<>> THEN NaN ELSE DigitsValue(ds)

isNaN(v) == v = NaN

\* String.prototype.split(sep) for a one-character separator
RECURSIVE split(_, _)
split(str, sep) ==
  IF \E i \in 1..Len(str) : str[i] = sep
  THEN LET i == CHOOSE k \in 1..Len(str) : str[k] = sep /\ \A j \in 1..(k-1) : str[j] # sep
       IN  <<SubSeq(str, 1, i - 1)>> \o split(SubSeq(str, i + 1, Len(str)), sep)
  ELSE <<str>>

\* Array.prototype.join(sep), as the template literal of generateHash does
RECURSIVE join(_, _)
join(parts, sep) ==
  IF Len(parts) = 0 THEN <<>>
  ELSE IF Len(parts) = 1 THEN parts[1]
  ELSE parts[1] \o <<sep>> \o join(Tail(parts), sep)

\* String.prototype.trim
RECURSIVE TrimEnd(_)
TrimEnd(str) ==
  IF str # <<>> /\ str[Len(str)] = " " THEN TrimEnd(SubSeq(str, 1, Len(str) - 1)) ELSE str
trim(str) == TrimEnd(TrimStart(str))

(***************************************************************************)
(* Configuration state (state.js).  Operators take the state object st     *)
(* and return the value read or the state object after the call.           *)
(***************************************************************************)
\* state.seed before initState has run
NoSeed == -1
\* state.pattern before the first generatePattern
NoPattern == [gridRes |-> 0, triangles |-> <<>>]

\* the state object as the module defines it
state0 ==
  [ seed |-> NoSeed, themeId |-> "olives", complexity |-> 2, aspectMode |-> "square",
    bgColor |-> "#000000", sigColor |-> null, gridSize |-> 10, showGrid |-> TRUE,
    gridCols |-> 10, gridRows |-> 10, pattern |-> NoPattern ]

\* Math.round(gridSize * 1.5) with halves rounded down
RoundOneAndHalfDown(g) == (3 * g) \div 2

\* Math.round(gridSize * 1.5): halves round up
RoundOneAndHalf(g) == (3 * g + 1) \div 2

recalcGridDims(st) ==
  LET cols == IF st.aspectMode = "landscape" THEN RoundOneAndHalf(st.gridSize) ELSE st.gridSize
      rows == IF st.aspectMode = "landscape" THEN st.gridSize
              ELSE IF st.aspectMode = "portrait" THEN RoundOneAndHalf(st.gridSize)
              ELSE st.gridSize
  IN  [st EXCEPT !.gridCols = Max(2, cols), !.gridRows = Max(2, rows)]

getThemeColors(st) ==
  IF \E i \in 1..Len(THEME_LIST) : THEME_LIST[i].id = st.themeId
  THEN THEME_LIST[CHOOSE i \in 1..Len(THEME_LIST) : THEME_LIST[i].id = st.themeId].colors
  ELSE THEME_LIST[1].colors

getThemeIndexById(id) ==
  LET IsId(t) == t.id = id
      idx == FindIndex(THEME_LIST, IsId)
  IN  IF idx >= 0 THEN idx ELSE 0

setThemeByIndex(st, idx) ==
  [st EXCEPT !.themeId = At(THEME_LIST, clampInt(idx, 0, Len(THEME_LIST) - 1)).id]

getBackgroundPalette(st) == <<"#000000">> \o getThemeColors(st)

getSignaturePalette(st) == <<"#000000">> \o getThemeColors(st)

\* getEffectiveSigColor that answers black for every automatic signature
getEffectiveSigColorAlwaysBlack(st) ==
  IF st.sigColor # null THEN st.sigColor ELSE "#000000"

getEffectiveSigColor(st) ==
  IF st.sigColor # null THEN st.sigColor
  ELSE IF toLowerCase(st.bgColor) = "#000000" THEN "#888888" ELSE "#000000"

getSigColorIndex(st) ==
  IF st.sigColor = null THEN -1
  ELSE LET Same(c) == toLowerCase(c) = toLowerCase(st.sigColor)
       IN  FindIndex(getSignaturePalette(st), Same)

setSigColorFromIndex(st, idx) ==
  IF idx < 0 THEN [st EXCEPT !.sigColor = null]
  ELSE LET palette == getSignaturePalette(st)
       IN  [st EXCEPT !.sigColor = At(palette, clampInt(idx, 0, Len(palette) - 1))]

(***************************************************************************)
(* Hash generation and parsing (state.js).                                 *)
(***************************************************************************)
AspectIndexOf(aspectMode) ==
  IF aspectMode = "square" THEN 0 ELSE IF aspectMode = "landscape" THEN 1 ELSE 2

AspectModeOf(aspectIndex) ==
  IF aspectIndex = 1 THEN "landscape" ELSE IF aspectIndex = 2 THEN "portrait" ELSE "square"

\* generateHash as the five-segment format wrote it: no signature segment
generateHashNoSig(st) ==
  LET themeIndex  == getThemeIndexById(st.themeId)
      bgPalette   == getBackgroundPalette(st)
      SameBg(c)   == toLowerCase(c) = toLowerCase(st.bgColor)
      found       == FindIndex(bgPalette, SameBg)
      bgIdx       == IF found < 0 THEN 0 ELSE found
  IN  join(<<toString36(st.seed), toString36(themeIndex), toString36(st.complexity),
             toString36(AspectIndexOf(st.aspectMode)), toString36(bgIdx)>>, "-")

\* generateHash with the grid size as one more segment
generateHashWithGrid(st) ==
  LET found  == FindIndex(getBackgroundPalette(st),
                          LAMBDA c : toLowerCase(c) = toLowerCase(st.bgColor))
      bgIdx  == IF found < 0 THEN 0 ELSE found
      sigIdx == getSigColorIndex(st)
  IN  join(<<toString36(st.seed), toString36(getThemeIndexById(st.themeId)),
             toString36(st.complexity), toString36(AspectIndexOf(st.aspectMode)),
             toString36(bgIdx), IF sigIdx < 0 THEN <<"a">> ELSE toString36(sigIdx),
             toString36(st.gridSize)>>, "-")

\* generateHash with the complexity and aspect fields in the other order
generateHashSwapped(st) ==
  LET themeIndex  == getThemeIndexById(st.themeId)
      aspectIndex == AspectIndexOf(st.aspectMode)
      bgPalette   == getBackgroundPalette(st)
      SameBg(c)   == toLowerCase(c) = toLowerCase(st.bgColor)
      found       == FindIndex(bgPalette, SameBg)
      bgIdx       == IF found < 0 THEN 0 ELSE found
      sigIdx      == getSigColorIndex(st)
      sigPart     == IF sigIdx < 0 THEN <<"a">> ELSE toString36(sigIdx)
  IN  join(<<toString36(st.seed), toString36(themeIndex), toString36(aspectIndex),
             toString36(st.complexity), toString36(bgIdx), sigPart>>, "-")

generateHash(st) ==
  LET themeIndex  == getThemeIndexById(st.themeId)
      aspectIndex == AspectIndexOf(st.aspectMode)
      bgPalette   == getBackgroundPalette(st)
      SameBg(c)   == toLowerCase(c) = toLowerCase(st.bgColor)
      found       == FindIndex(bgPalette, SameBg)
      bgIdx       == IF found < 0 THEN 0 ELSE found
      sigIdx      == getSigColorIndex(st)
      sigPart     == IF sigIdx < 0 THEN <<"a">> ELSE toString36(sigIdx)
  IN  join(<<toString36(st.seed), toString36(themeIndex), toString36(st.complexity),
             toString36(aspectIndex), toString36(bgIdx), sigPart>>, "-")

\* the part of parseHash after the checks, keeping the previous signature
\* color when the hash has no sixth segment
ParseCommitKeepSig(st, parts, newSeed, themeIndex, newComplexity, aspectIndex, newBgIndex) ==
  LET s1 == [st EXCEPT !.seed = newSeed]
      s2 == setThemeByIndex(s1, themeIndex)
      s3 == [s2 EXCEPT !.complexity = newComplexity, !.aspectMode = AspectModeOf(aspectIndex)]
      bgPalette   == getBackgroundPalette(s3)
      safeBgIndex == clampInt(IF isNaN(newBgIndex) THEN 0 ELSE newBgIndex, 0, Len(bgPalette) - 1)
      s4 == [s3 EXCEPT !.bgColor = At(bgPalette, safeBgIndex)]
  IN  IF Len(parts) >= 6
      THEN LET sigPart == parts[6]
           IN  IF sigPart = <<"a">> THEN [s4 EXCEPT !.sigColor = null]
               ELSE LET sigIdx == parseInt36(sigPart)
                    IN  setSigColorFromIndex(s4, IF isNaN(sigIdx) THEN -1 ELSE sigIdx)
      ELSE s4

\* the part of parseHash after the checks, with the background index
\* resolved before the theme is set
ParseCommitBgFirst(st, parts, newSeed, themeIndex, newComplexity, aspectIndex, newBgIndex) ==
  LET s1 == [st EXCEPT !.seed = newSeed]
      bgPalette   == getBackgroundPalette(s1)
      safeBgIndex == clampInt(IF isNaN(newBgIndex) THEN 0 ELSE newBgIndex, 0, Len(bgPalette) - 1)
      s2 == setThemeByIndex(s1, themeIndex)
      s3 == [s2 EXCEPT !.complexity = newComplexity, !.aspectMode = AspectModeOf(aspectIndex)]
      s4 == [s3 EXCEPT !.bgColor = At(bgPalette, safeBgIndex)]
  IN  IF Len(parts) >= 6
      THEN LET sigPart == parts[6]
           IN  IF sigPart = <<"a">> THEN [s4 EXCEPT !.sigColor = null]
               ELSE LET sigIdx == parseInt36(sigPart)
                    IN  setSigColorFromIndex(s4, IF isNaN(sigIdx) THEN -1 ELSE sigIdx)
      ELSE [s4 EXCEPT !.sigColor = null]

\* the part of parseHash after the checks, with the sixth segment always
\* parsed as an index
ParseCommitSigByIndex(st, parts, newSeed, themeIndex, newComplexity, aspectIndex, newBgIndex) ==
  LET s1 == [st EXCEPT !.seed = newSeed]
      s2 == setThemeByIndex(s1, themeIndex)
      s3 == [s2 EXCEPT !.complexity = newComplexity, !.aspectMode = AspectModeOf(aspectIndex)]
      bgPalette   == getBackgroundPalette(s3)
      safeBgIndex == clampInt(IF isNaN(newBgIndex) THEN 0 ELSE newBgIndex, 0, Len(bgPalette) - 1)
      s4 == [s3 EXCEPT !.bgColor = At(bgPalette, safeBgIndex)]
  IN  IF Len(parts) >= 6
      THEN LET sigIdx == parseInt36(parts[6])
           IN  setSigColorFromIndex(s4, IF isNaN(sigIdx) THEN -1 ELSE sigIdx)
      ELSE [s4 EXCEPT !.sigColor = null]

\* the part of parseHash after every validation check has passed
ParseCommit(st, parts, newSeed, themeIndex, newComplexity, aspectIndex, newBgIndex) ==
  LET s1 == [st EXCEPT !.seed = newSeed]
      s2 == setThemeByIndex(s1, themeIndex)
      s3 == [s2 EXCEPT !.complexity = newComplexity, !.aspectMode = AspectModeOf(aspectIndex)]
      bgPalette   == getBackgroundPalette(s3)
      safeBgIndex == clampInt(IF isNaN(newBgIndex) THEN 0 ELSE newBgIndex, 0, Len(bgPalette) - 1)
      s4 == [s3 EXCEPT !.bgColor = At(bgPalette, safeBgIndex)]
  IN  IF Len(parts) >= 6
      THEN LET sigPart == parts[6]
           IN  IF sigPart = <<"a">> THEN [s4 EXCEPT !.sigColor = null]
               ELSE LET sigIdx == parseInt36(sigPart)
                    IN  setSigColorFromIndex(s4, IF isNaN(sigIdx) THEN -1 ELSE sigIdx)
      ELSE [s4 EXCEPT !.sigColor = null]

\* parseHash with the seed written before the checks have passed
parseHashEarlySeed(st, hash) ==
  IF hash = NotAString THEN [ret |-> FALSE, state |-> st]
  ELSE
  LET parts == split(hash, "-")
  IN  IF Len(parts) < 3 THEN [ret |-> FALSE, state |-> st]
      ELSE
      LET newSeed       == parseInt36(parts[1])
          themeIndex    == parseInt36(parts[2])
          newComplexity == parseInt36(parts[3])
          aspectIndex   == IF Len(parts) >= 4 THEN parseInt36(parts[4]) ELSE 0
          newBgIndex    == IF Len(parts) >= 5 THEN parseInt36(parts[5]) ELSE 0
          early         == [st EXCEPT !.seed = newSeed]
      IN  IF isNaN(newSeed) \/ isNaN(themeIndex) \/ isNaN(newComplexity)
            THEN [ret |-> FALSE, state |-> st]
          ELSE IF newComplexity < 1 \/ newComplexity > 5
            THEN [ret |-> FALSE, state |-> early]
          ELSE IF themeIndex < 0 \/ themeIndex >= Len(THEME_LIST)
            THEN [ret |-> FALSE, state |-> early]
          ELSE [ret |-> TRUE,
                state |-> ParseCommit(st, parts, newSeed, themeIndex, newComplexity,
                                      aspectIndex, newBgIndex)]

\* parseHash without the complexity range check
parseHashNoComplexityCheck(st, hash) ==
  IF hash = NotAString THEN [ret |-> FALSE, state |-> st]
  ELSE
  LET parts == split(hash, "-")
  IN  IF Len(parts) < 3 THEN [ret |-> FALSE, state |-> st]
      ELSE
      LET newSeed       == parseInt36(parts[1])
          themeIndex    == parseInt36(parts[2])
          newComplexity == parseInt36(parts[3])
          aspectIndex   == IF Len(parts) >= 4 THEN parseInt36(parts[4]) ELSE 0
          newBgIndex    == IF Len(parts) >= 5 THEN parseInt36(parts[5]) ELSE 0
      IN  IF isNaN(newSeed) \/ isNaN(themeIndex) \/ isNaN(newComplexity)
            THEN [ret |-> FALSE, state |-> st]
          ELSE IF themeIndex < 0 \/ themeIndex >= Len(THEME_LIST)
            THEN [ret |-> FALSE, state |-> st]
          ELSE [ret |-> TRUE,
                state |-> ParseCommit(st, parts, newSeed, themeIndex, newComplexity,
                                      aspectIndex, newBgIndex)]

\* parseHash without the theme index range check
parseHashNoThemeCheck(st, hash) ==
  IF hash = NotAString THEN [ret |-> FALSE, state |-> st]
  ELSE
  LET parts == split(hash, "-")
  IN  IF Len(parts) < 3 THEN [ret |-> FALSE, state |-> st]
      ELSE
      LET newSeed       == parseInt36(parts[1])
          themeIndex    == parseInt36(parts[2])
          newComplexity == parseInt36(parts[3])
          aspectIndex   == IF Len(parts) >= 4 THEN parseInt36(parts[4]) ELSE 0
          newBgIndex    == IF Len(parts) >= 5 THEN parseInt36(parts[5]) ELSE 0
      IN  IF isNaN(newSeed) \/ isNaN(themeIndex) \/ isNaN(newComplexity)
            THEN [ret |-> FALSE, state |-> st]
          ELSE IF newComplexity < 1 \/ newComplexity > 5
            THEN [ret |-> FALSE, state |-> st]
          ELSE [ret |-> TRUE,
                state |-> ParseCommit(st, parts, newSeed, themeIndex, newComplexity,
                                      aspectIndex, newBgIndex)]

\* parseHash that also rejects a hash whose aspect or background segment holds
\* no digit
parseHashStrictTail(st, hash) ==
  IF hash = NotAString THEN [ret |-> FALSE, state |-> st]
  ELSE
  LET parts == split(hash, "-")
  IN  IF Len(parts) < 3 THEN [ret |-> FALSE, state |-> st]
      ELSE
      LET newSeed       == parseInt36(parts[1])
          themeIndex    == parseInt36(parts[2])
          newComplexity == parseInt36(parts[3])
          aspectIndex   == IF Len(parts) >= 4 THEN parseInt36(parts[4]) ELSE 0
          newBgIndex    == IF Len(parts) >= 5 THEN parseInt36(parts[5]) ELSE 0
      IN  IF isNaN(newSeed) \/ isNaN(themeIndex) \/ isNaN(newComplexity)
             \/ isNaN(aspectIndex) \/ isNaN(newBgIndex)
            THEN [ret |-> FALSE, state |-> st]
          ELSE IF newComplexity < 1 \/ newComplexity > 5
            THEN [ret |-> FALSE, state |-> st]
          ELSE IF themeIndex < 0 \/ themeIndex >= Len(THEME_LIST)
            THEN [ret |-> FALSE, state |-> st]
          ELSE [ret |-> TRUE,
                state |-> ParseCommit(st, parts, newSeed, themeIndex, newComplexity,
                                      aspectIndex, newBgIndex)]

\* parseHash(hash): ret is the value returned, state the state object afterwards
parseHash(st, hash) ==
  IF hash = NotAString THEN [ret |-> FALSE, state |-> st]
  ELSE
  LET parts == split(hash, "-")
  IN  IF Len(parts) < 3 THEN [ret |-> FALSE, state |-> st]
      ELSE
      LET newSeed       == parseInt36(parts[1])
          themeIndex    == parseInt36(parts[2])
          newComplexity == parseInt36(parts[3])
          aspectIndex   == IF Len(parts) >= 4 THEN parseInt36(parts[4]) ELSE 0
          newBgIndex    == IF Len(parts) >= 5 THEN parseInt36(parts[5]) ELSE 0
      IN  IF isNaN(newSeed) \/ isNaN(themeIndex) \/ isNaN(newComplexity)
            THEN [ret |-> FALSE, state |-> st]
          ELSE IF newComplexity < 1 \/ newComplexity > 5
            THEN [ret |-> FALSE, state |-> st]
          ELSE IF themeIndex < 0 \/ themeIndex >= Len(THEME_LIST)
            THEN [ret |-> FALSE, state |-> st]
          ELSE [ret |-> TRUE,
                state |-> ParseCommit(st, parts, newSeed, themeIndex, newComplexity,
                                      aspectIndex, newBgIndex)]

(***************************************************************************)
(* Seeded random stream.  The 32-bit state is kept as two 16-bit halves    *)
(* <<hi, lo>> (state = hi * 65536 + lo), so that no product leaves the     *)
(* integers the checker computes with; the arithmetic is that of           *)
(* (a * s + c) >>> 0, which p5's random uses with the same constants.      *)
(***************************************************************************)
LcgA == 1664525
LcgC == 1013904223
Half == 65536

\* seed >>> 0, for the non-negative seeds below 2^31 of the model
seededRandom(seed) == <<seed \div Half, seed % Half>>

\* p5's randomSeed(seed): the stream restarts from seed >>> 0
randomSeed(seed) == seededRandom(seed)

\* one step of the generator that drops the carry out of the low half
LcgNextNoCarry(s) ==
  LET aHi == LcgA \div Half
      aLo == LcgA % Half
      p   == aLo * s[2] + (LcgC % Half)
      q   == aLo * s[1] + aHi * s[2] + (LcgC \div Half)
  IN  <<q % Half, p % Half>>

\* one step of the generator: s = (a * s + c) mod 2^32
LcgNext(s) ==
  LET aHi == LcgA \div Half
      aLo == LcgA % Half
      p   == aLo * s[2] + (LcgC % Half)
      q   == aLo * s[1] + aHi * s[2] + (LcgC \div Half) + (p \div Half)
  IN  <<q % Half, p % Half>>

\* the value s / 2^32 the stream returns is compared and scaled, never kept:
\* value > 0.5
GreaterThanHalf(s) == s[1] > 32768 \/ (s[1] = 32768 /\ s[2] > 0)
\* Math.round(value * n) in place of Math.floor(value * n)
FloorTimesRounded(s, n) == (s[1] + Half \div (2 * n)) \div (Half \div n)
\* Math.floor(value * n) for n = 4 or n = 8
FloorTimes(s, n) == s[1] \div (Half \div n)

(***************************************************************************)
(* Pattern generation (modes.js and the core module).  A coordinate        *)
(* col / (gridRes - 1) is the pair <<col, gridRes - 1>>.                   *)
(***************************************************************************)
\* the sub-cell split whose false branch pushes (TL, TR, BL) and (TL, BR, BL)
SubCellTrianglesMixed(i, gridRes, diagDirection, colorIdx1, colorIdx2) ==
  LET n   == gridRes - 1
      row == i \div n
      col == i % n
      tl == [x |-> <<col, n>>, y |-> <<row, n>>]
      tr == [x |-> <<col + 1, n>>, y |-> <<row, n>>]
      bl == [x |-> <<col, n>>, y |-> <<row + 1, n>>]
      br == [x |-> <<col + 1, n>>, y |-> <<row + 1, n>>]
  IN  IF diagDirection
      THEN << [vertices |-> <<tl, tr, br>>, colorIndex |-> colorIdx1],
              [vertices |-> <<tl, br, bl>>, colorIndex |-> colorIdx2] >>
      ELSE << [vertices |-> <<tl, tr, bl>>, colorIndex |-> colorIdx1],
              [vertices |-> <<tl, br, bl>>, colorIndex |-> colorIdx2] >>

\* the two triangles of sub-cell number i (row-major) from three draws
SubCellTriangles(i, gridRes, diagDirection, colorIdx1, colorIdx2) ==
  LET n   == gridRes - 1
      row == i \div n
      col == i % n
      x0 == <<col, n>>
      y0 == <<row, n>>
      x1 == <<col + 1, n>>
      y1 == <<row + 1, n>>
      tl == [x |-> x0, y |-> y0]
      tr == [x |-> x1, y |-> y0]
      bl == [x |-> x0, y |-> y1]
      br == [x |-> x1, y |-> y1]
  IN  IF diagDirection
      THEN << [vertices |-> <<tl, tr, br>>, colorIndex |-> colorIdx1],
              [vertices |-> <<tl, br, bl>>, colorIndex |-> colorIdx2] >>
      ELSE << [vertices |-> <<tl, tr, bl>>, colorIndex |-> colorIdx1],
              [vertices |-> <<tr, br, bl>>, colorIndex |-> colorIdx2] >>

\* the loop over the sub-cells from number i on: the triangles pushed and the
\* stream state left behind
RECURSIVE TriangleLoop(_, _, _)
TriangleLoop(i, gridRes, rng) ==
  IF i >= (gridRes - 1) * (gridRes - 1) THEN [triangles |-> <<>>, rng |-> rng]
  ELSE LET r1 == LcgNext(rng)
           r2 == LcgNext(r1)
           r3 == LcgNext(r2)
           rest == TriangleLoop(i + 1, gridRes, r3)
       IN  [triangles |-> SubCellTriangles(i, gridRes, GreaterThanHalf(r1),
                                           FloorTimes(r2, 8), FloorTimes(r3, 8))
                          \o rest.triangles,
            rng |-> rest.rng]

generateTrianglePattern(gridRes, rng) ==
  LET run == TriangleLoop(0, gridRes, rng)
  IN  [pattern |-> [gridRes |-> gridRes, triangles |-> run.triangles, mode |-> "triangle"],
       rng |-> run.rng]

\* the circle loop with the two color draws taken before the corner draw
RECURSIVE CircleLoopColorsFirst(_, _, _)
CircleLoopColorsFirst(i, gridRes, rng) ==
  IF i >= (gridRes - 1) * (gridRes - 1) THEN [cells |-> <<>>, rng |-> rng]
  ELSE LET n  == gridRes - 1
           r1 == LcgNext(rng)
           r2 == LcgNext(r1)
           r3 == LcgNext(r2)
           rest == CircleLoopColorsFirst(i + 1, gridRes, r3)
       IN  [cells |-> << [x |-> <<i % n, n>>, y |-> <<i \div n, n>>,
                          w |-> <<1, n>>, h |-> <<1, n>>,
                          corner |-> FloorTimes(r3, 4),
                          bgColorIndex |-> FloorTimes(r1, 8),
                          arcColorIndex |-> FloorTimes(r2, 8)] >> \o rest.cells,
            rng |-> rest.rng]

RECURSIVE CircleLoop(_, _, _)
CircleLoop(i, gridRes, rng) ==
  IF i >= (gridRes - 1) * (gridRes - 1) THEN [cells |-> <<>>, rng |-> rng]
  ELSE LET n  == gridRes - 1
           r1 == LcgNext(rng)
           r2 == LcgNext(r1)
           r3 == LcgNext(r2)
           rest == CircleLoop(i + 1, gridRes, r3)
       IN  [cells |-> << [x |-> <<i % n, n>>, y |-> <<i \div n, n>>,
                          w |-> <<1, n>>, h |-> <<1, n>>,
                          corner |-> FloorTimes(r1, 4),
                          bgColorIndex |-> FloorTimes(r2, 8),
                          arcColorIndex |-> FloorTimes(r3, 8)] >> \o rest.cells,
            rng |-> rest.rng]

\* generateCirclePattern with one cell per grid point instead of one per
\* sub-cell
generateCirclePatternPerPoint(gridRes, rng) ==
  LET run == CircleLoop(0, gridRes + 1, rng)
  IN  [pattern |-> [gridRes |-> gridRes, cells |-> run.cells, mode |-> "circle"],
       rng |-> run.rng]

generateCirclePattern(gridRes, rng) ==
  LET run == CircleLoop(0, gridRes, rng)
  IN  [pattern |-> [gridRes |-> gridRes, cells |-> run.cells, mode |-> "circle"],
       rng |-> run.rng]

\* generatePatternForMode(mode, complexity, seedFn, randomFn, floorFn): seedFn
\* is never called, randomFn draws from the stream rng
generatePatternForMode(mode, complexity, rng) ==
  LET gridRes == complexity + 1
  IN  IF mode = "circle" THEN generateCirclePattern(gridRes, rng)
      ELSE generateTrianglePattern(gridRes, rng)

\* generatePattern of the core module without its randomSeed call: the loop
\* continues the stream where it stands
generatePatternNoReseed(st, rng) ==
  LET gridRes == st.complexity + 1
      run == TriangleLoop(0, gridRes, rng)
  IN  [state |-> [st EXCEPT !.pattern = [gridRes |-> gridRes, triangles |-> run.triangles]],
       rng |-> run.rng]

\* seeds: Math.floor(Math.random() * 999999999) delivers 0 .. 999999998
MaxSeed == 999999998
SeedPool == {0, 10, 47, MaxSeed}

\* the loop's result from a freshly seeded stream, computed once for the
\* seeds and grid resolutions of the model
SeededLoops ==
  [ key \in SeedPool \X (2..6) |->
      TriangleLoop(0, key[2], randomSeed(key[1])) ]
SeededTriangleLoop(seed, gridRes) ==
  IF <<seed, gridRes>> \in DOMAIN SeededLoops THEN SeededLoops[<<seed, gridRes>>]
  ELSE TriangleLoop(0, gridRes, randomSeed(seed))

\* generatePattern() of the core module: the state object and the p5 stream
\* afterwards
generatePattern(st, rng) ==
  LET gridRes == st.complexity + 1
      run == SeededTriangleLoop(st.seed, gridRes)
  IN  [state |-> [st EXCEPT !.pattern = [gridRes |-> gridRes, triangles |-> run.triangles]],
       rng |-> run.rng]

(***************************************************************************)
(* Gallery previews (gallery.js).                                          *)
(***************************************************************************)
\* the two triangles filled for sub-cell number i of a tile, their corners
\* divided by cellSize and taken relative to the tile origin (ox, oy)
PreviewSubCell(i, gridRes, diagDirection, colorIdx1, colorIdx2) ==
  LET n   == gridRes - 1
      row == i \div n
      col == i % n
      x0 == <<col, n>>
      y0 == <<row, n>>
      x1 == <<col + 1, n>>
      y1 == <<row + 1, n>>
      first  == IF diagDirection
                THEN << [x |-> x0, y |-> y0], [x |-> x1, y |-> y0], [x |-> x1, y |-> y1] >>
                ELSE << [x |-> x0, y |-> y0], [x |-> x1, y |-> y0], [x |-> x0, y |-> y1] >>
      second == IF diagDirection
                THEN << [x |-> x0, y |-> y0], [x |-> x1, y |-> y1], [x |-> x0, y |-> y1] >>
                ELSE << [x |-> x1, y |-> y0], [x |-> x1, y |-> y1], [x |-> x0, y |-> y1] >>
  IN  << [vertices |-> first,  colorIndex |-> colorIdx1],
         [vertices |-> second, colorIndex |-> colorIdx2] >>

\* the row and column loops of one tile from sub-cell number i on
RECURSIVE PreviewTileLoop(_, _, _)
PreviewTileLoop(i, gridRes, rng) ==
  IF i >= (gridRes - 1) * (gridRes - 1) THEN [triangles |-> <<>>, rng |-> rng]
  ELSE LET r1 == LcgNext(rng)
           r2 == LcgNext(r1)
           r3 == LcgNext(r2)
           rest == PreviewTileLoop(i + 1, gridRes, r3)
       IN  [triangles |-> PreviewSubCell(i, gridRes, GreaterThanHalf(r1),
                                         FloorTimes(r2, 8), FloorTimes(r3, 8))
                          \o rest.triangles,
            rng |-> rest.rng]

\* the 3 x 3 tiles from tile number t on (cy outer, cx inner), all drawn from
\* the one stream rng created before the tile loops
RECURSIVE PreviewTiles(_, _, _)
PreviewTiles(t, gridRes, rng) ==
  IF t >= 9 THEN <<>>
  ELSE LET run == PreviewTileLoop(0, gridRes, rng)
       IN  <<run.triangles>> \o PreviewTiles(t + 1, gridRes, run.rng)

\* renderPreviews for one favorite: the triangles filled in each of the nine
\* tiles, in unit-cell coordinates, with their color indices
renderPreview(hash) ==
  LET parts      == split(hash, "-")
      seed       == parseInt36(parts[1])
      complexity == parseInt36(parts[3])
      gridRes    == complexity + 1
  IN  PreviewTiles(0, gridRes, seededRandom(seed))

(***************************************************************************)
(* Variables.                                                              *)
(***************************************************************************)
VARIABLES
  state,        \* the state object of state.js
  lastOp,       \* the operation that ran last
  hashText,     \* the hash string handed to parseHash or returned by generateHash
  before,       \* the state object when the last operation started
  ret,          \* the value the last parseHash returned
  rngState,     \* the state of p5's seeded random stream
  draws,        \* values drawn from the p5 stream since the last generation
  runs,         \* the generator runs so far, the last two kept
  favHash,      \* the hash of the favorite record whose preview is rendered
  previews,     \* the nine tiles renderPreviews drew for that favorite
  p5SyncRedraw, \* whether the p5 build runs draw() inside redraw() and resizeCanvas()
  phase,        \* how far window.setup has come: "load", "awaitFavorites", "ready"
  drawLog,      \* what each draw() of the last handler read from the state object
  changed,      \* which of themeId, bgColor, sigColor the last handler replaced
  bgSwatches,   \* the colors of the background swatch elements
  sigSwatches,  \* the colors of the signature swatch elements (after the auto swatch)
  seedHash,     \* the text of the seedHash element, which the copy button copies
  urlHash,      \* the h parameter the page has written into its URL
  styles,       \* the inline style of wrapper, canvasContainer, signature, body, html
  canvasSize,   \* width and height of the p5 canvas
  exports,      \* the exportHighRes calls made so far: where each stands, what it saved
  saveHidden,   \* whether the save options are hidden
  html2canvas,  \* whether window.html2canvas is there
  domMissing,   \* which of wrapper, canvasContainer, signature the page lacks
  favoritesCache, \* the favorite records of state.js, in list order
  favStored,    \* the geogrid_favorites item of localStorage
  favRet,       \* the value the last favorites call returned
  favPrev,      \* the favorite records when the last favorites handler started
  favArg,       \* the hash the last favorites call was about
  canvas,       \* the calls the last drawCellForMode made on p5
  sigStyle,     \* the inline color of the signature element, "" while none is set
  sketch,       \* the globals of the single-file sketch (sketch.js)
  sketchHash,   \* the text of the seedHash field of the single-file sketch
  sketchCalls,  \* which of generatePattern and redraw the sketch's last handler called
  favActive     \* whether the favorite button has the class active

codecVars == <<hashText, before, ret>>
patVars == <<rngState, draws, runs, favHash, previews>>
uiVars == <<p5SyncRedraw, phase, drawLog, changed, bgSwatches, sigSwatches, seedHash, urlHash>>
expVars == <<styles, canvasSize, exports, saveHidden, html2canvas, domMissing>>
favVars == <<favoritesCache, favStored, favRet, favPrev, favArg>>
drawVars == <<canvas, sigStyle>>
sketchVars == <<sketch, sketchHash, sketchCalls>>
btnVars == <<favActive>>
vars == <<state, lastOp, codecVars, patVars, uiVars, expVars, favVars, btnVars, drawVars, sketchVars>>

\* the variables outside the codec, the pattern generator, the controls
exceptCodec == <<patVars, uiVars, expVars, favVars, btnVars, drawVars, sketchVars>>
exceptPattern == <<codecVars, uiVars, expVars, favVars, btnVars, drawVars, sketchVars>>
exceptUI == <<codecVars, draws, runs, favHash, previews, expVars, favVars, drawVars, sketchVars>>
exceptExport == <<codecVars, patVars, uiVars, favVars, btnVars, drawVars, sketchVars>>

\* the globals of sketch.js as the file declares them (seed is assigned in
\* setup, pattern in generatePattern)
sketch0 ==
  [ gridSize |-> 10, pattern |-> NoPattern, currentThemeId |-> "olive", complexity |-> 2,
    showGrid |-> TRUE, seed |-> NoSeed, aspectMode |-> "square", bgColor |-> "#000000",
    gridCols |-> 10, gridRows |-> 10 ]
SketchIdle == sketch = sketch0 /\ sketchHash = <<>> /\ sketchCalls = {}

\* the favorites before loadFavorites has run: no list, no item in the store
NoItem == [item |-> "none", list |-> <<>>]
FavIdle ==
  /\ favoritesCache = <<>> /\ favStored = NoItem
  /\ favRet = FALSE /\ favPrev = <<>> /\ favArg = <<>>
  /\ favActive = FALSE

CodecIdle == hashText = <<>> /\ before = state /\ ret = FALSE
PatternIdle ==
  rngState = <<0, 0>> /\ draws = 0 /\ runs = <<>> /\ favHash = <<>> /\ previews = <<>>
\* the inline styles of the page outside an export
PageStyles ==
  [ e \in {"wrapper", "canvasContainer", "signature", "body", "html"} |-> <<"page">> ]
ExportIdle ==
  /\ styles = PageStyles
  /\ canvasSize = <<0, 0>>
  /\ exports = <<>>
  /\ saveHidden = TRUE
  /\ html2canvas = TRUE
  /\ domMissing = {}
UIIdle ==
  /\ ExportIdle
  /\ p5SyncRedraw = FALSE
  /\ phase = "off"
  /\ drawLog = {}
  /\ changed = {}
  /\ bgSwatches = <<>>
  /\ sigSwatches = <<>>
  /\ seedHash = <<>>
  /\ urlHash = <<>>

\* the fields of the state object that the hash encodes
Encoded(st) ==
  [ seed |-> st.seed, themeId |-> st.themeId, complexity |-> st.complexity,
    aspectMode |-> st.aspectMode, bgColor |-> st.bgColor, sigColor |-> st.sigColor ]


AspectModes == {"square", "landscape", "portrait"}

PaletteSet(themeId) ==
  LET palette == getBackgroundPalette([themeId |-> themeId])
  IN  { palette[i] : i \in 1..Len(palette) }

\* the configurations the round trip is stated for
ConfigsOfTheme(t) ==
  { [state0 EXCEPT !.seed = s, !.themeId = t, !.complexity = k, !.aspectMode = a,
                   !.bgColor = b, !.sigColor = c] :
      s \in SeedPool, k \in 1..5, a \in AspectModes,
      b \in PaletteSet(t), c \in {null} \cup PaletteSet(t) }
ValidConfigs == UNION { ConfigsOfTheme(t) : t \in ThemeIds }

(***************************************************************************)
(* SpecCodec: a hash is generated from a configuration, the configuration  *)
(* is then changed, and the hash is parsed back.                           *)
(***************************************************************************)
\* configurations the program is in when the copied hash is loaded again
LaterConfigs ==
  { [state0 EXCEPT !.seed = 1],
    [state0 EXCEPT !.seed = 7, !.themeId = "francoPhile", !.complexity = 5,
                   !.aspectMode = "portrait", !.bgColor = "#E63946", !.sigColor = "#0d1b2a"] }

InitCodec ==
  /\ state \in ValidConfigs
  /\ lastOp = "init"
  /\ FavIdle
  /\ canvas = <<>>
  /\ sigStyle = ""
  /\ SketchIdle
  /\ CodecIdle
  /\ PatternIdle
  /\ UIIdle

\* generateHash(), as the copy button and addFavorite read it
Encode ==
  /\ lastOp = "init"
  /\ hashText' = generateHash(state)
  /\ before' = state
  /\ lastOp' = "encode"
  /\ UNCHANGED <<state, ret, exceptCodec>>

\* the configuration moves on while the hash sits in the clipboard
Change ==
  /\ lastOp = "encode"
  /\ state' \in LaterConfigs
  /\ lastOp' = "change"
  /\ UNCHANGED <<hashText, before, ret, exceptCodec>>

\* parseHash(hash) on the hash generated before
Decode ==
  /\ lastOp \in {"encode", "change"}
  /\ LET r == parseHash(state, hashText)
     IN  /\ state' = r.state
         /\ ret' = r.ret
  /\ lastOp' = "decode"
  /\ UNCHANGED <<hashText, before, exceptCodec>>

NextCodec == Encode \/ Change \/ Decode

SpecCodec == InitCodec /\ [][NextCodec]_vars

\* C1: parseHash(generateHash()) returns true and leaves seed, themeId,
\* complexity, aspectMode, bgColor and sigColor equal to the encoded values
RoundTrip ==
  lastOp = "decode" => (ret = TRUE /\ Encoded(state) = Encoded(before))

\* a hash with a two-digit seed and a signature color was decoded into a
\* configuration that had moved on to other values
RoundTripWitness ==
  /\ lastOp = "decode"
  /\ ret = TRUE
  /\ before.seed = 47
  /\ before.themeId = "oceanFire"
  /\ before.sigColor = "#003049"
  /\ before.bgColor = "#669bbc"
  /\ before.aspectMode = "landscape"
  /\ Encoded(state) = Encoded(before)
  /\ hashText = <<"1","b","-","1","-","3","-","1","-","5","-","4">>

(***************************************************************************)
(* SpecParse: parseHash is called on an arbitrary text.                    *)
(***************************************************************************)
\* the segments the texts are made of: 'a' (10), '0', '1', '2' and a segment
\* that holds no digit
SegPool == { <<"a">>, <<"0">>, <<"1">>, <<"2">>, <<"!">> }

\* every text of 1 .. MaxParts segments joined by '-', and a non-string
HashInputs ==
  { join(p, "-") : p \in UNION { [1..n -> SegPool] : n \in 1..MaxParts } } \cup {NotAString}

\* one configuration per theme, every field away from its default
StartConfigs ==
  { [state0 EXCEPT !.seed = 999, !.themeId = THEME_LIST[i].id, !.complexity = 4,
                   !.aspectMode = "landscape", !.bgColor = THEME_LIST[i].colors[3],
                   !.sigColor = THEME_LIST[i].colors[4], !.gridSize = 3,
                   !.gridCols = 5, !.gridRows = 3] : i \in 1..Len(THEME_LIST) }

InitParse ==
  /\ state \in StartConfigs
  /\ lastOp = "init"
  /\ FavIdle
  /\ canvas = <<>>
  /\ sigStyle = ""
  /\ SketchIdle
  /\ CodecIdle
  /\ PatternIdle
  /\ UIIdle

\* texts with digits above 5, upper-case digits and longer segments
ExtraInputs ==
  { <<"a","-","1","-","2","-","0","-","z","-","z">>,
    <<"a","-","6","-","2","-","1","-","3","-","4">>,
    <<"a","-","4","-","2","-","0","-","9","-","A">>,
    <<"a","-","2","-","2","-","0","-","5","-","a","1">>,
    <<"a","-","3","-","2","-","2","-","4","-"," ","a">>,
    <<"a","-","5","-","3","-","7","-","6","-","!","-","z","z","-","!">>,
    <<"a","-","1","-","1","-","2","-","3","-","2","-","-","1">> }

ParseInput ==
  /\ lastOp = "init"
  /\ \E h \in HashInputs \cup ExtraInputs :
       LET r == parseHash(state, h)
       IN  /\ hashText' = h
           /\ state' = r.state
           /\ ret' = r.ret
  /\ before' = state
  /\ lastOp' = "parse"
  /\ UNCHANGED exceptCodec

NextParse == ParseInput

SpecParse == InitParse /\ [][NextParse]_vars

\* the segments of the text parsed last
Parts == IF hashText = NotAString THEN <<>> ELSE split(hashText, "-")

\* the first three segments pass validation
FirstThreeValid ==
  /\ Len(Parts) >= 3
  /\ \A i \in 1..3 : ~isNaN(parseInt36(Parts[i]))
  /\ parseInt36(Parts[3]) \in 1..5
  /\ parseInt36(Parts[2]) \in 0..(Len(THEME_LIST) - 1)

\* C2: whenever parseHash returns false, every configuration field has the
\* value it had before the call
FailureLeavesState ==
  (lastOp = "parse" /\ ret = FALSE) => state = before

\* a text whose seed and theme parse and whose complexity is out of range was
\* rejected: the check that fails comes after the seed is known
FailureLeavesStateWitness ==
  /\ lastOp = "parse"
  /\ ret = FALSE
  /\ hashText = <<"a","-","0","-","a">>
  /\ state = before
  /\ state.seed = 999

\* C3: parseHash returns false for a text with fewer than 3 segments, with a
\* segment 0, 1 or 2 that is no base-36 integer, or with a theme index outside
\* the catalog
RejectsInvalid ==
  (/\ lastOp = "parse"
   /\ \/ Len(Parts) < 3
      \/ \E i \in 1..3 : isNaN(parseInt36(Parts[i]))
      \/ parseInt36(Parts[2]) < 0
      \/ parseInt36(Parts[2]) >= Len(THEME_LIST))
  => ret = FALSE

\* a text with seed 10, theme index 10 (the catalog has 7 themes) and
\* complexity 2 was rejected
RejectsInvalidWitness ==
  /\ lastOp = "parse"
  /\ hashText = <<"a","-","a","-","2">>
  /\ ret = FALSE

\* C10: a text of 3, 4 or 5 segments whose first three segments pass validation
\* decodes with the missing fields defaulted: square without an aspect segment,
\* black without a background segment, auto without a signature segment; and
\* "a-0-2" decodes to seed 10, theme 0, complexity 2, square, black, auto
BackwardCompatible ==
  (lastOp = "parse" /\ FirstThreeValid /\ Len(Parts) \in 3..5) =>
     /\ ret = TRUE
     /\ state.seed = parseInt36(Parts[1])
     /\ state.themeId = At(THEME_LIST, parseInt36(Parts[2])).id
     /\ state.complexity = parseInt36(Parts[3])
     /\ (Len(Parts) < 4 => state.aspectMode = "square")
     /\ (Len(Parts) < 5 => state.bgColor = "#000000")
     /\ state.sigColor = null
     /\ (hashText = <<"a","-","0","-","2">> =>
           Encoded(state) = [seed |-> 10, themeId |-> "olives", complexity |-> 2,
                             aspectMode |-> "square", bgColor |-> "#000000",
                             sigColor |-> null])

\* "a-0-2" was decoded over a configuration with another theme, a landscape
\* aspect, a theme color as background and a signature color
BackwardCompatibleWitness ==
  /\ lastOp = "parse"
  /\ hashText = <<"a","-","0","-","2">>
  /\ ret = TRUE
  /\ before.themeId = "beachDay"
  /\ before.sigColor # null
  /\ before.aspectMode = "landscape"
  /\ state.seed = 10

(***************************************************************************)
(* SpecPattern: the pattern generator and the gallery preview of a         *)
(* favorite, over the p5 stream.                                           *)
(***************************************************************************)
\* states the p5 stream can be in when the sketch starts (it is seeded from
\* Math.random until randomSeed is called)
StreamStarts == { <<0, 0>>, <<4660, 22136>> }

InitPattern ==
  /\ \E s \in SeedPool, k \in 1..5 : state = [state0 EXCEPT !.seed = s, !.complexity = k]
  /\ lastOp = "init"
  /\ FavIdle
  /\ canvas = <<>>
  /\ sigStyle = ""
  /\ SketchIdle
  /\ CodecIdle
  /\ rngState \in StreamStarts
  /\ draws = 0
  /\ runs = <<>>
  /\ favHash = <<>>
  /\ previews = <<>>
  /\ UIIdle

\* the record of one generator run, the older of two dropped
Record(run) == IF Len(runs) < 2 THEN Append(runs, run) ELSE <<runs[2], run>>

\* another consumer draws a value from the p5 stream: random()
ConsumeRandom ==
  /\ draws < MaxDraws
  /\ rngState' = LcgNext(rngState)
  /\ draws' = draws + 1
  /\ lastOp' = "random"
  /\ UNCHANGED <<state, runs, favHash, previews, exceptPattern>>

\* generatePattern() of the core module
GeneratePattern ==
  /\ LET g == generatePattern(state, rngState)
     IN  /\ state' = g.state
         /\ rngState' = g.rng
         /\ runs' = Record([seed |-> state.seed, complexity |-> state.complexity,
                            mode |-> "core", drawsBefore |-> draws, streamBefore |-> rngState,
                            pattern |-> g.state.pattern])
  /\ draws' = 0
  /\ lastOp' = "generatePattern"
  /\ UNCHANGED <<favHash, previews, exceptPattern>>

\* generatePatternForMode(mode, complexity, ..) called with p5's random right
\* after the caller has reseeded the stream with randomSeed(seed)
GenerateForModeOf(Modes) ==
  /\ \E mode \in Modes :
       LET g == generatePatternForMode(mode, state.complexity, randomSeed(state.seed))
       IN  /\ rngState' = g.rng
           /\ runs' = Record([seed |-> state.seed, complexity |-> state.complexity,
                              mode |-> mode, drawsBefore |-> draws, streamBefore |-> rngState,
                              pattern |-> g.pattern])
  /\ draws' = 0
  /\ lastOp' = "generatePatternForMode"
  /\ UNCHANGED <<state, favHash, previews, exceptPattern>>

GenerateForMode == GenerateForModeOf({"triangle", "circle"})

\* addFavorite(): the record keeps generateHash() of the current configuration
AddFavorite ==
  /\ favHash = <<>>
  /\ state.pattern # NoPattern
  /\ favHash' = generateHash(state)
  /\ lastOp' = "addFavorite"
  /\ UNCHANGED <<state, rngState, draws, runs, previews, exceptPattern>>

\* renderPreviews() for the favorite
RenderPreviews ==
  /\ favHash # <<>>
  /\ previews' = renderPreview(favHash)
  /\ lastOp' = "renderPreviews"
  /\ UNCHANGED <<state, rngState, draws, runs, favHash, exceptPattern>>

NextPattern ==
  \/ ConsumeRandom
  \/ GeneratePattern
  \/ GenerateForMode

SpecPattern == InitPattern /\ [][NextPattern]_vars

(***************************************************************************)
(* SpecPreview: a pattern is generated, the configuration is saved as a    *)
(* favorite and the gallery renders its preview.                           *)
(***************************************************************************)
InitPreview ==
  /\ \E s \in SeedPool, k \in 1..5, t \in ThemeIds :
        state = [state0 EXCEPT !.seed = s, !.complexity = k, !.themeId = t]
  /\ lastOp = "init"
  /\ FavIdle
  /\ canvas = <<>>
  /\ sigStyle = ""
  /\ SketchIdle
  /\ CodecIdle
  /\ PatternIdle
  /\ UIIdle

NextPreview ==
  \/ GeneratePattern
  \/ AddFavorite
  \/ RenderPreviews

SpecPreview == InitPreview /\ [][NextPreview]_vars

\* C5: two generator runs for the same seed, mode and complexity, each from a
\* freshly seeded stream, return identical patterns, whatever was drawn from
\* the stream before the reseed
Determinism ==
  (/\ Len(runs) = 2
   /\ runs[1].seed = runs[2].seed
   /\ runs[1].mode = runs[2].mode
   /\ runs[1].complexity = runs[2].complexity)
  => runs[1].pattern = runs[2].pattern

\* two runs of the core generator for the same seed and complexity started
\* with the stream in different states, and each produced triangles
DeterminismWitness ==
  /\ Len(runs) = 2
  /\ runs[1].mode = "core"
  /\ runs[2].mode = "core"
  /\ runs[1].complexity = 3
  /\ runs[1].streamBefore # runs[2].streamBefore
  /\ runs[2].drawsBefore = MaxDraws
  /\ Len(runs[2].pattern.triangles) = 18
  /\ runs[1].pattern = runs[2].pattern

\* C6: every one of the 3 x 3 tiles renderPreviews draws for a favorite is,
\* sub-cell by sub-cell, the pattern generatePattern produced for the seed
\* and complexity of the favorite's hash
PreviewMatchesPattern ==
  (lastOp = "renderPreviews" /\ favHash = generateHash(state))
  => \A t \in 1..9 : previews[t] = state.pattern.triangles

\* the first tile alone is the pattern
FirstTileMatchesPattern ==
  (lastOp = "renderPreviews" /\ favHash = generateHash(state))
  => previews[1] = state.pattern.triangles


(***************************************************************************)
(* Spec: the sketch with its controls. window.setup runs in two steps      *)
(* around its await; afterwards every event handler runs to completion.    *)
(***************************************************************************)
\* what draw() reads from the state object to paint the cells
Snap(st) == [seed |-> st.seed, complexity |-> st.complexity, pattern |-> st.pattern]

Range(seq) == { seq[i] : i \in 1..Len(seq) }

\* the draws of one handler. points holds the state at each of its calls of
\* redraw() or resizeCanvas(): a build that draws inside the call reads the
\* state of that moment, a build that defers the draw reads the state the
\* handler leaves.
Draws(points, final) ==
  IF p5SyncRedraw THEN { Snap(p) : p \in Range(points) }
  ELSE IF points = <<>> THEN {} ELSE { Snap(final) }

Changed(old, new) ==
  { f \in {"themeId", "bgColor", "sigColor"} : old[f] # new[f] }

\* Array.prototype.some(c => c.toLowerCase() === color.toLowerCase())
SomeEqualsLower(palette, color) ==
  \E i \in 1..Len(palette) : toLowerCase(palette[i]) = toLowerCase(color)

\* applyTheme(themeId) with the bgColor test left out
applyThemeKeepBg(st, themeId) ==
  LET s1 == [st EXCEPT !.themeId = themeId]
  IN  IF s1.sigColor # null /\ ~SomeEqualsLower(getSignaturePalette(s1), s1.sigColor)
      THEN [s1 EXCEPT !.sigColor = null]
      ELSE s1

\* applyTheme(themeId) that resets both colors on every theme change
applyThemeAlwaysReset(st, themeId) ==
  [st EXCEPT !.themeId = themeId, !.bgColor = "#000000", !.sigColor = null]

\* applyTheme(themeId): the writes to the state object
applyTheme(st, themeId) ==
  LET s1 == [st EXCEPT !.themeId = themeId]
      s2 == IF ~SomeEqualsLower(getBackgroundPalette(s1), s1.bgColor)
            THEN [s1 EXCEPT !.bgColor = "#000000"]
            ELSE s1
  IN  IF s2.sigColor # null /\ ~SomeEqualsLower(getSignaturePalette(s2), s2.sigColor)
      THEN [s2 EXCEPT !.sigColor = null]
      ELSE s2

\* Array.prototype.find / findIndex / some on the hash field
HashIndex(cache, hash) == FindIndex(cache, LAMBDA f : f.hash = hash)

\* isFavorite(hash)
isFavorite(cache, hash) == HashIndex(cache, hash) >= 0

\* updateFavoriteButton() that leaves the class of the button as it is
updateFavoriteButtonKept(cache, st, active) == active

\* updateFavoriteButton(): whether the button has the class active afterwards,
\* classList.toggle('active', isFavorite())
updateFavoriteButton(cache, st, active) == isFavorite(cache, generateHash(st))

\* the handlers that call updateFavoriteButton() after their writes to the
\* state object: applyTheme, setAspect, the complexity slider, the generate
\* button, the swatches, the load button with a valid hash, handleStateChange
UpdatesFavoriteButton ==
  { "themeSelect", "nextTheme", "randomTheme", "setAspect", "complexitySlider", "generate",
    "bgSwatch", "sigSwatch", "sigAuto", "load", "loadFavorite" }

\* what a handler leaves: the state object, the p5 stream, the draws
Leave(op, final, rng, points) ==
  /\ state' = final
  /\ rngState' = rng
  /\ lastOp' = op
  /\ drawLog' = Draws(points, final)
  /\ changed' = Changed(state, final)
  /\ favActive' = IF op \in UpdatesFavoriteButton
                  THEN updateFavoriteButton(favoritesCache, final, favActive)
                  ELSE favActive
  /\ UNCHANGED <<p5SyncRedraw, phase, exceptUI>>

\* refreshThemeUI(): both swatch rows are rebuilt from the palette
RefreshThemeUI(final) ==
  /\ bgSwatches' = getBackgroundPalette(final)
  /\ sigSwatches' = getSignaturePalette(final)

\* updateHashDisplay(): the seedHash element shows the hash of the state object
updateHashDisplay(st) == seedHash' = generateHash(st)

\* syncHashToUrl(): replaceState with the h parameter set to the hash
syncHashToUrl(st) == urlHash' = generateHash(st)

Ready == phase = "ready"

\* window.setup up to its await: initState()
SetupStart(Seeds) ==
  /\ phase = "load"
  /\ \E s \in Seeds :
       /\ state' = [state EXCEPT !.seed = s]
       \* a build that draws right after setup() has returned its promise
       /\ drawLog' = IF p5SyncRedraw THEN { Snap(state') } ELSE {}
  /\ phase' = "awaitFavorites"
  /\ lastOp' = "setup"
  /\ UNCHANGED <<rngState, p5SyncRedraw, changed, bgSwatches, sigSwatches, seedHash, urlHash,
               exceptUI, btnVars>>

\* window.setup after its await; h is the h parameter of the URL, empty when
\* there is none. (Here and in the handlers below a value that is used more
\* than once is bound by \E over a singleton, so that it is computed once.)
SetupFinish(Texts) ==
  /\ phase = "awaitFavorites"
  /\ \E h \in Texts \cup {<<>>} :
     \E loaded \in { IF h # <<>> THEN parseHash(state, h) ELSE [ret |-> FALSE, state |-> state] } :
     \E s1 \in { IF loaded.ret THEN recalcGridDims(loaded.state) ELSE state } :
     \E g \in { generatePattern(s1, rngState) } :
     \E final \in { recalcGridDims(g.state) } :
           /\ state' = final
           /\ rngState' = g.rng
           /\ changed' = Changed(state, final)
           \* a build that waits for setup's promise draws once after it
           /\ drawLog' = IF p5SyncRedraw THEN {} ELSE { Snap(final) }
           /\ RefreshThemeUI(final)
           /\ updateHashDisplay(final)
           /\ syncHashToUrl(final)
           /\ favActive' = updateFavoriteButton(favoritesCache, final, favActive)
  /\ phase' = "ready"
  /\ lastOp' = "setupDone"
  /\ UNCHANGED <<p5SyncRedraw, exceptUI>>

\* window.windowResized: resizeToAspect(); redraw()
WindowResized ==
  /\ phase \in {"awaitFavorites", "ready"}
  /\ drawLog' = IF Ready THEN Draws(<<state, state>>, state)
                ELSE IF p5SyncRedraw THEN { Snap(state) } ELSE {}
  /\ lastOp' = "windowResized"
  /\ changed' = {}
  /\ UNCHANGED <<state, rngState, p5SyncRedraw, phase, bgSwatches, sigSwatches, seedHash,
               urlHash, exceptUI, btnVars>>


\* the change handler of the theme select without applyTheme's syncHashToUrl call
ThemeSelectNoSync(Themes) ==
  /\ Ready
  /\ \E themeId \in Themes :
     \E final \in { applyTheme(state, themeId) } :
       /\ Leave("themeSelect", final, rngState, <<final>>) /\ RefreshThemeUI(final)
       /\ UNCHANGED <<seedHash, urlHash>>

\* the change handler of the theme select
ThemeSelect(Themes) ==
  /\ Ready
  /\ \E themeId \in Themes :
     \E final \in { applyTheme(state, themeId) } :
       /\ Leave("themeSelect", final, rngState, <<final>>) /\ RefreshThemeUI(final)
       /\ syncHashToUrl(final) /\ UNCHANGED seedHash

\* the click handler of the next-theme button
NextThemeClick ==
  /\ Ready
  /\ LET currentIdx == FindIndex(THEME_LIST, LAMBDA t : t.id = state.themeId)
         nextIdx == (currentIdx + 1) % Len(THEME_LIST)
     IN  \E final \in { applyTheme(state, At(THEME_LIST, nextIdx).id) } :
           /\ Leave("nextTheme", final, rngState, <<final>>) /\ RefreshThemeUI(final)
           /\ syncHashToUrl(final) /\ UNCHANGED seedHash

\* the click handler of the random-theme button
RandomThemeClick(Indices) ==
  /\ Ready
  /\ \E randomIdx \in Indices :
     \E final \in { applyTheme(state, At(THEME_LIST, randomIdx).id) } :
       /\ Leave("randomTheme", final, rngState, <<final>>) /\ RefreshThemeUI(final)
       /\ syncHashToUrl(final) /\ UNCHANGED seedHash

\* the input handler of the grid slider
GridSlider(Sizes) ==
  /\ Ready
  /\ \E g \in Sizes :
     \E final \in { recalcGridDims([state EXCEPT !.gridSize = g]) } :
       Leave("gridSlider", final, rngState, <<final>>)
  /\ UNCHANGED <<bgSwatches, sigSwatches, seedHash, urlHash>>

\* setAspect(mode) of the aspect buttons
SetAspect(Modes) ==
  /\ Ready
  /\ \E mode \in Modes :
       /\ state.aspectMode # mode
       /\ \E final \in { recalcGridDims([state EXCEPT !.aspectMode = mode]) } :
            \* onResize(), then onRedraw()
            /\ Leave("setAspect", final, rngState, <<final, final>>) /\ RefreshThemeUI(final)
            /\ syncHashToUrl(final) /\ UNCHANGED seedHash

\* the input handler of the complexity slider
ComplexitySlider(Values) ==
  /\ Ready
  /\ \E k \in Values :
     \E g \in { generatePattern([state EXCEPT !.complexity = k], rngState) } :
       \* generatePattern() ends with updateHashDisplay()
       /\ Leave("complexitySlider", g.state, g.rng, <<g.state>>)
       /\ updateHashDisplay(g.state)
       /\ syncHashToUrl(g.state)
  /\ UNCHANGED <<bgSwatches, sigSwatches>>

\* the click handler of the generate button
GenerateClick(Seeds) ==
  /\ Ready
  /\ \E s \in Seeds :
     \E g \in { generatePattern([state EXCEPT !.seed = s], rngState) } :
       \* generatePattern() ends with updateHashDisplay()
       /\ Leave("generate", g.state, g.rng, <<g.state>>)
       /\ updateHashDisplay(g.state)
       /\ syncHashToUrl(g.state)
  /\ UNCHANGED <<bgSwatches, sigSwatches>>

\* the click handler of the i-th background swatch, which holds the color
\* the swatch was built with; Slots are the swatches that get clicked
BgSwatchClick(Slots) ==
  /\ Ready
  /\ \E i \in Slots \cap (1..Len(bgSwatches)) :
     \E final \in { [state EXCEPT !.bgColor = bgSwatches[i]] } :
       /\ Leave("bgSwatch", final, rngState, <<final>>) /\ RefreshThemeUI(final)
       /\ syncHashToUrl(final) /\ updateHashDisplay(final)

\* the click handler of the i-th signature color swatch
SigSwatchClick(Slots) ==
  /\ Ready
  /\ \E i \in Slots \cap (1..Len(sigSwatches)) :
     \E final \in { [state EXCEPT !.sigColor = sigSwatches[i]] } :
       /\ Leave("sigSwatch", final, rngState, <<>>)
       /\ syncHashToUrl(final) /\ updateHashDisplay(final)
       /\ sigSwatches' = getSignaturePalette(final)
  /\ UNCHANGED bgSwatches

\* the click handler of the auto swatch
SigAutoClick ==
  /\ Ready
  /\ \E final \in { [state EXCEPT !.sigColor = null] } :
       /\ Leave("sigAuto", final, rngState, <<>>)
       /\ syncHashToUrl(final) /\ updateHashDisplay(final)
       /\ sigSwatches' = getSignaturePalette(final)
  /\ UNCHANGED bgSwatches

\* the click handler of the load button; text is the value of the input
LoadClick(Texts) ==
  /\ Ready
  /\ \E text \in Texts :
     \E hash \in { trim(text) } :
     \E parsed \in { IF hash # <<>> THEN parseHash(state, hash)
                     ELSE [ret |-> FALSE, state |-> state] } :
     \E s1 \in { recalcGridDims(parsed.state) } :
     \E g \in { generatePattern(s1, rngState) } :
       IF parsed.ret
       THEN \* onResize() at s1, onGenerate(), onRedraw()
            /\ Leave("load", g.state, g.rng, <<s1, g.state>>) /\ RefreshThemeUI(g.state)
            /\ syncHashToUrl(g.state) /\ updateHashDisplay(g.state)
       ELSE /\ Leave("loadRejected", state, rngState, <<>>)
            /\ UNCHANGED <<bgSwatches, sigSwatches, seedHash, urlHash>>

\* loadFavorite(hash) without its recalcGridDims call
LoadFavoriteNoRecalc(Hashes) ==
  /\ Ready
  /\ \E hash \in Hashes :
     \E parsed \in { parseHash(state, hash) } :
     \E g \in { generatePattern(parsed.state, rngState) } :
       IF parsed.ret
       THEN /\ Leave("loadFavorite", g.state, g.rng, <<g.state>>)
            /\ RefreshThemeUI(g.state)
            /\ syncHashToUrl(parsed.state) /\ updateHashDisplay(g.state)
       ELSE /\ Leave("favoriteRejected", state, rngState, <<>>)
            /\ UNCHANGED <<bgSwatches, sigSwatches, seedHash, urlHash>>

\* loadFavorite(hash) of the gallery, with handleStateChange as its callback
LoadFavorite(Hashes) ==
  /\ Ready
  /\ \E hash \in Hashes :
     \E parsed \in { parseHash(state, hash) } :
     \E s1 \in { recalcGridDims(parsed.state) } :
     \E g \in { generatePattern(s1, rngState) } :
       IF parsed.ret
       THEN /\ Leave("loadFavorite", g.state, g.rng, <<g.state>>)
            /\ RefreshThemeUI(g.state)
            \* syncHashToUrl() after recalcGridDims(), updateHashDisplay() in the callback
            /\ syncHashToUrl(s1) /\ updateHashDisplay(g.state)
       ELSE /\ Leave("favoriteRejected", state, rngState, <<>>)
            /\ UNCHANGED <<bgSwatches, sigSwatches, seedHash, urlHash>>

\* the inputs of the controls
UISeeds == {10}
RandomIndices == {2, 5}
\* the swatches clicked: the second and the fifth of a row, which hold
\* '#003049' in autumnIsh and in oceanFire (the first holds '#000000')
SwatchSlots == {2, 5}
UITexts ==
  { <<"a","-","0","-","2">>,
    <<"a","-","6","-","2","-","0","-","4","-","3">>,
    <<"a","-","2","-","2","-","0","-","z","-","z">>,
    <<" ","a","-","4","-","2","-","0","-","1"," ">>,
    <<"a","-","7","-","2">>,
    <<" ">> }
FavoriteHashes ==
  { <<"a","-","1","-","2","-","0","-","4","-","5">>,
    <<"a","-","5","-","2","-","0","-","2">>,
    <<"a","-","0","-","6">> }

Init ==
  /\ state = state0
  /\ lastOp = "init"
  /\ FavIdle
  /\ canvas = <<>>
  /\ sigStyle = ""
  /\ SketchIdle
  /\ CodecIdle
  /\ PatternIdle
  /\ ExportIdle
  /\ p5SyncRedraw \in BOOLEAN
  /\ phase = "load"
  /\ drawLog = {}
  /\ changed = {}
  /\ bgSwatches = <<>>
  /\ sigSwatches = <<>>
  /\ seedHash = <<>>
  /\ urlHash = <<>>

\* the controls that write themeId, bgColor and sigColor
Next ==
  \/ SetupStart(UISeeds)
  \/ SetupFinish(UITexts)
  \/ ThemeSelect(ThemeIds)
  \/ NextThemeClick
  \/ RandomThemeClick(RandomIndices)
  \/ BgSwatchClick(SwatchSlots)
  \/ SigSwatchClick(SwatchSlots)
  \/ SigAutoClick
  \/ LoadClick(UITexts)
  \/ LoadFavorite(FavoriteHashes)

Spec == Init /\ [][Next]_vars

(***************************************************************************)
(* SpecRender: the controls that write seed, complexity and the canvas     *)
(* size, and the draws they cause.                                         *)
(***************************************************************************)
RenderSeeds == {10}
RenderNewSeeds == {47}
RenderTexts ==
  { <<"a","-","0","-","3">>,
    <<"1","b","-","1","-","5","-","1">>,
    <<" ","a","-","0","-","1","-","2","-","1","-","1"," ">>,
    <<"a","-","0","-","6">> }
RenderFavorites ==
  { <<"a","-","0","-","4">>,
    <<"a","-","-","2">>,
    <<"a","-","0","-","0">> }

NextRender ==
  \/ SetupStart(RenderSeeds)
  \/ SetupFinish(RenderTexts)
  \/ WindowResized
  \/ GridSlider(2..MaxGridSize)
  \/ SetAspect({"square", "landscape", "portrait"})
  \/ ComplexitySlider(1..5)
  \/ GenerateClick(RenderNewSeeds)
  \/ LoadClick(RenderTexts)
  \/ LoadFavorite(RenderFavorites)

SpecRender == Init /\ [][NextRender]_vars


\* palette.some(c => c.toLowerCase() === color.toLowerCase()) for the palette
\* of the selected theme
InPalette(st, color) == SomeEqualsLower(getBackgroundPalette(st), color)

\* C4: in every state reached by theme changes (select, next, random),
\* background and signature swatch clicks and hash loads, bgColor is a member
\* of black + the colors of the selected theme, and sigColor is auto (null)
\* or a member of that palette.
PaletteConsistency ==
  /\ InPalette(state, state.bgColor)
  /\ state.bgColor \in PaletteSet(state.themeId)
  /\ state.sigColor = null \/ state.sigColor \in PaletteSet(state.themeId)

\* a theme change has replaced a background color and a signature color the
\* new theme does not have
PaletteConsistencyWitness ==
  /\ lastOp \in {"themeSelect", "nextTheme", "randomTheme"}
  /\ changed = {"themeId", "bgColor", "sigColor"}
  /\ state.bgColor = "#000000"
  /\ state.sigColor = null

\* the handlers that write seed or complexity
RegeneratingOps == {"generate", "complexitySlider", "load", "loadFavorite", "setupDone"}

\* the pattern generatePattern() stores for the seed and complexity of st
PatternOf(seed, complexity) ==
  generatePattern([state0 EXCEPT !.seed = seed, !.complexity = complexity], <<0, 0>>).state.pattern

\* C7: in every handler that changes seed or complexity, whenever draw runs
\* the stored pattern is the one generated from the current seed and the
\* current complexity (pattern.gridRes = complexity + 1): no draw happens
\* between the commit and the regeneration.
PatternCurrentAtDraw ==
  lastOp \in RegeneratingOps =>
    \A d \in drawLog :
      /\ d.pattern.gridRes = d.complexity + 1
      /\ d.pattern = PatternOf(d.seed, d.complexity)

\* the same for the handlers other than the load button
PatternCurrentOutsideLoad ==
  lastOp \in RegeneratingOps \ {"load"} =>
    \A d \in drawLog : d.pattern = PatternOf(d.seed, d.complexity)

\* with a build that defers its draws, and from the gallery, the pattern is
\* current
PatternCurrentWhenDeferred ==
  (~p5SyncRedraw /\ Ready) => \A d \in drawLog : d.pattern = PatternOf(d.seed, d.complexity)


(***************************************************************************)
(* SpecExport: the save section and exportHighRes, which runs up to its    *)
(* first await inside the confirm handler and resumes twice.               *)
(***************************************************************************)
\* Math.round(x * num / 100) for the integers of the export layout
RoundPercent(x, num) == (x * num + 50) \div 100

\* getCanvasSizeForAspect()
getCanvasSizeForAspect(st, windowHeight) ==
  LET baseH == (windowHeight * 70) \div 100
  IN  IF st.aspectMode = "landscape" THEN <<(baseH * 3) \div 2, baseH>>
      ELSE IF st.aspectMode = "portrait" THEN <<(baseH * 2) \div 3, baseH>>
      ELSE <<baseH, baseH>>

\* the canvas size exportHighRes computes: cw, ch
ExportCanvasSize(st, resWidth, resHeight) ==
  LET padX == RoundPercent(resWidth, 6)
      padTop == RoundPercent(resHeight, 6)
      padBottom == RoundPercent(resHeight, 10)
      availableW == resWidth - padX * 2
      availableH == resHeight - padTop - padBottom
      \* Math.round(cw / targetAspect), Math.round(ch * targetAspect)
      DivAspect(cw) == IF st.aspectMode = "landscape" THEN (4 * cw + 3) \div 6
                       ELSE IF st.aspectMode = "portrait" THEN (3 * cw + 1) \div 2
                       ELSE cw
      TimesAspect(ch) == IF st.aspectMode = "landscape" THEN (3 * ch + 1) \div 2
                         ELSE IF st.aspectMode = "portrait" THEN (4 * ch + 3) \div 6
                         ELSE ch
      maxCanvasH == Max(100, RoundPercent(availableH, 78))
  IN  IF DivAspect(availableW) > maxCanvasH
      THEN <<TimesAspect(maxCanvasH), maxCanvasH>>
      ELSE <<availableW, DivAspect(availableW)>>

\* the inline styles exportHighRes writes for an output of that size
ExportStyles(resWidth, resHeight) ==
  [ e \in DOMAIN PageStyles |-> <<"export", resWidth, resHeight>> ]

\* exportHighRes with the test for missing nodes after the first style writes
StartExportLateTest(resWidth, resHeight) ==
  /\ styles' = IF ~html2canvas \/ domMissing # {}
               THEN [styles EXCEPT !["html"] = <<"export", resWidth, resHeight>>]
               ELSE ExportStyles(resWidth, resHeight)
  /\ canvasSize' = IF ~html2canvas \/ domMissing # {} THEN canvasSize
                   ELSE ExportCanvasSize(state, resWidth, resHeight)
  /\ exports' = Append(exports, [pc |-> IF ~html2canvas \/ domMissing # {}
                                         THEN "returned" ELSE "layout",
                                 prev |-> styles, size |-> <<resWidth, resHeight>>,
                                 set |-> canvasSize',
                                 left |-> [styles |-> styles', canvasSize |-> canvasSize']])

\* exportHighRes(resWidth, resHeight) up to its first await: the call it
\* adds to exports, the page it leaves
StartExport(resWidth, resHeight) ==
  IF domMissing # {} \/ ~html2canvas
  THEN /\ exports' = Append(exports, [pc |-> "returned", prev |-> styles,
                                      size |-> <<resWidth, resHeight>>,
                                      set |-> canvasSize,
                                      left |-> [styles |-> styles, canvasSize |-> canvasSize]])
       /\ UNCHANGED <<styles, canvasSize>>
  ELSE /\ exports' = Append(exports, [pc |-> "layout", prev |-> styles,
                                      size |-> <<resWidth, resHeight>>,
                                      \* cw, ch of window.resizeCanvas(cw, ch)
                                      set |-> ExportCanvasSize(state, resWidth, resHeight),
                                      left |-> [styles |-> styles, canvasSize |-> canvasSize]])
       /\ styles' = ExportStyles(resWidth, resHeight)
       /\ canvasSize' = ExportCanvasSize(state, resWidth, resHeight)

MaxExports == 2
\* the pages: complete, or lacking one of the three nodes exportHighRes looks up
DomMissingPool == { {}, {"wrapper"}, {"canvasContainer"}, {"signature"} }
WindowHeight == 900
ExportSizes == { <<2048, 2048>>, <<1200, 800>> }

\* the click handler of the save button (also the s key)
SaveClick ==
  /\ saveHidden
  /\ saveHidden' = FALSE
  /\ lastOp' = "save"
  /\ UNCHANGED <<state, styles, canvasSize, exports, html2canvas, domMissing, exceptExport>>

\* the click handler of the cancel button (also the Escape key)
CancelSave ==
  /\ ~saveHidden
  /\ saveHidden' = TRUE
  /\ lastOp' = "cancelSave"
  /\ UNCHANGED <<state, styles, canvasSize, exports, html2canvas, domMissing, exceptExport>>

\* the click handler of the confirm button
ConfirmSave ==
  /\ ~saveHidden
  /\ Len(exports) < MaxExports
  /\ \E size \in ExportSizes : StartExport(size[1], size[2])
  /\ saveHidden' = TRUE
  /\ lastOp' = "confirmSave"
  /\ UNCHANGED <<state, html2canvas, domMissing, exceptExport>>

\* handleResKeypress with the Enter key in one of the two inputs
EnterKey ==
  /\ ~saveHidden
  /\ Len(exports) < MaxExports
  /\ \E size \in ExportSizes : StartExport(size[1], size[2])
  /\ saveHidden' = TRUE
  /\ lastOp' = "enterKey"
  /\ UNCHANGED <<state, html2canvas, domMissing, exceptExport>>

\* the two animation frames have passed: html2canvas(wrapper, ..) is called
LayoutSettled ==
  /\ \E i \in 1..Len(exports) :
       /\ exports[i].pc = "layout"
       /\ exports' = [exports EXCEPT ![i].pc = "capture"]
  /\ lastOp' = "layoutSettled"
  /\ UNCHANGED <<state, styles, canvasSize, saveHidden, html2canvas, domMissing, exceptExport>>

\* html2canvas resolves: download, restore the saved styles, resizeCallback()
CaptureResolved ==
  /\ \E i \in 1..Len(exports) :
       /\ exports[i].pc = "capture"
       /\ styles' = exports[i].prev
       /\ canvasSize' = getCanvasSizeForAspect(state, WindowHeight)
       /\ exports' = [exports EXCEPT ![i].pc = "done",
                                     ![i].left = [styles |-> styles', canvasSize |-> canvasSize']]
  /\ lastOp' = "captureResolved"
  /\ UNCHANGED <<state, saveHidden, html2canvas, domMissing, exceptExport>>

\* html2canvas rejects: the promise of exportHighRes rejects with it
CaptureRejected ==
  /\ \E i \in 1..Len(exports) :
       /\ exports[i].pc = "capture"
       /\ exports' = [exports EXCEPT ![i].pc = "rejected",
                                     ![i].left = [styles |-> styles, canvasSize |-> canvasSize]]
  /\ lastOp' = "captureRejected"
  /\ UNCHANGED <<state, styles, canvasSize, saveHidden, html2canvas, domMissing, exceptExport>>

InitExport ==
  /\ \E mode \in AspectModes :
       state = generatePattern(recalcGridDims([state0 EXCEPT !.seed = 10, !.aspectMode = mode]),
                               <<0, 0>>).state
  /\ lastOp = "init"
  /\ FavIdle
  /\ canvas = <<>>
  /\ sigStyle = ""
  /\ SketchIdle
  /\ CodecIdle
  /\ PatternIdle
  /\ p5SyncRedraw \in BOOLEAN
  /\ phase = "ready"
  /\ drawLog = {}
  /\ changed = {}
  /\ bgSwatches = getBackgroundPalette(state)
  /\ sigSwatches = getSignaturePalette(state)
  /\ seedHash = generateHash(state)
  /\ urlHash = generateHash(state)
  /\ styles = PageStyles
  /\ canvasSize = getCanvasSizeForAspect(state, WindowHeight)
  /\ exports = <<>>
  /\ saveHidden = TRUE
  /\ html2canvas \in BOOLEAN
  /\ domMissing \in DomMissingPool

NextExport ==
  \/ SaveClick
  \/ CancelSave
  \/ ConfirmSave
  \/ EnterKey
  \/ LayoutSettled
  \/ CaptureResolved
  \/ CaptureRejected

SpecExport == InitExport /\ [][NextExport]_vars

\* the calls that have changed the page and have finished
Settled(i) == exports[i].pc \in {"done", "rejected"}

\* the calls between their style-save step and their style-restore step
InFlight == { i \in 1..Len(exports) : exports[i].pc \in {"layout", "capture"} }

\* C8: exportHighRes restores the pre-export visual state on every exit path:
\* once it has changed the inline styles or the canvas size, the styles it
\* saved and the normal canvas size are back when it finishes, also when
\* html2canvas rejects.
ExportRestores ==
  \A i \in 1..Len(exports) :
    Settled(i) =>
      /\ exports[i].left.styles = exports[i].prev
      /\ exports[i].left.canvasSize = getCanvasSizeForAspect(state, WindowHeight)

\* C9: at most one exportHighRes call is between its style-save step and its
\* style-restore step, for every sequence of confirm clicks and Enter keys.
NoOverlappingExports == Cardinality(InFlight) <= 1

\* an export that runs alone and whose capture resolves restores the page
LoneExportRestores ==
  (Len(exports) = 1 /\ exports[1].pc = "done") =>
    (styles = PageStyles /\ canvasSize = getCanvasSizeForAspect(state, WindowHeight))


(***************************************************************************)
(* Properties of the generator, the grid and the stream.                   *)
(***************************************************************************)
\* C11: for every complexity k in 1..5 the triangle generator returns exactly
\* 2*k*k triangles and the circle generator exactly k*k cell descriptors.
ShapeCount ==
  \A n \in 1..Len(runs) :
    LET k == runs[n].complexity
    IN  IF runs[n].mode = "circle"
        THEN Len(runs[n].pattern.cells) = k * k
        ELSE Len(runs[n].pattern.triangles) = 2 * k * k

\* both generators have run for a complexity above 1
ShapeCountWitness ==
  /\ Len(runs) = 2
  /\ runs[1].mode = "triangle"
  /\ runs[2].mode = "circle"
  /\ runs[1].complexity = 3
  /\ Len(runs[1].pattern.triangles) = 18
  /\ Len(runs[2].pattern.cells) = 9


(***************************************************************************)
(* SpecGrid: the grid slider and the aspect buttons over a range of grid   *)
(* sizes.                                                                  *)
(***************************************************************************)
\* largest value the grid slider delivers here (smallest is 2)
MaxGridInput == 24

InitGrid ==
  /\ state = generatePattern(recalcGridDims([state0 EXCEPT !.seed = 10]), <<0, 0>>).state
  /\ lastOp = "init"
  /\ FavIdle
  /\ canvas = <<>>
  /\ sigStyle = ""
  /\ SketchIdle
  /\ CodecIdle
  /\ PatternIdle
  /\ ExportIdle
  /\ p5SyncRedraw \in BOOLEAN
  /\ phase = "ready"
  /\ drawLog = {}
  /\ changed = {}
  /\ bgSwatches = getBackgroundPalette(state)
  /\ sigSwatches = getSignaturePalette(state)
  /\ seedHash = generateHash(state)
  /\ urlHash = generateHash(state)

NextGrid ==
  \/ GridSlider(2..MaxGridInput)
  \/ SetAspect(AspectModes)

SpecGrid == InitGrid /\ [][NextGrid]_vars

\* C12: after recalcGridDims, for every gridSize >= 2 and every aspect mode,
\* min(gridCols, gridRows) = gridSize, the elongated axis (columns in
\* landscape, rows in portrait) is round(gridSize * 1.5) with halves rounded
\* up, both axes equal gridSize in square mode, and both are >= 2.
GridDimensions ==
  (lastOp \in {"gridSlider", "setAspect"} /\ state.gridSize >= 2) =>
    LET g == state.gridSize
        long == IF state.aspectMode = "landscape" THEN state.gridCols ELSE state.gridRows
        short == IF state.aspectMode = "landscape" THEN state.gridRows ELSE state.gridCols
    IN  /\ Min(state.gridCols, state.gridRows) = g
        /\ short = g
        /\ state.aspectMode = "square" => long = g
        \* 3g/2 <= long < 3g/2 + 1, and long = 3g/2 + 1/2 for odd g
        /\ state.aspectMode # "square" => (2 * long - 3 * g) \in {0, 1}
        /\ state.gridCols >= 2
        /\ state.gridRows >= 2

\* an odd grid size in landscape: 7 * 1.5 = 10.5 gives 11 columns
GridDimensionsWitness ==
  /\ lastOp = "gridSlider"
  /\ state.gridSize = 7
  /\ state.aspectMode = "landscape"
  /\ state.gridCols = 11
  /\ state.gridRows = 7

\* C13: at the end of every handler (grid slider, aspect buttons, load
\* button, favorite load, URL hash load at setup) gridCols and gridRows are
\* the values recalcGridDims derives from the current aspectMode and gridSize.
DerivedDimsCurrent ==
  LET g == state.gridSize
      long == Max(2, (3 * g + 1) \div 2)
  IN  /\ state.gridCols = (IF state.aspectMode = "landscape" THEN long ELSE Max(2, g))
      /\ state.gridRows = (IF state.aspectMode = "portrait" THEN long ELSE Max(2, g))
      /\ recalcGridDims(state) = state

\* a favorite load has replaced a landscape grid of size 2 by a square one
DerivedDimsCurrentWitness ==
  /\ lastOp = "loadFavorite"
  /\ state.gridSize = 2
  /\ state.aspectMode = "square"
  /\ state.gridCols = 2
  /\ state.gridRows = 2


(***************************************************************************)
(* SpecStream: the closure seededRandom(seed) returns, called again and    *)
(* again.                                                                  *)
(***************************************************************************)
\* number of calls of the closure
MaxCalls == 16
StreamSeeds == {0, 1, 10, 47, 65535, 65536, 123456789, MaxSeed, 2147483647}

InitStream ==
  /\ \E seed \in StreamSeeds :
       /\ state = [state0 EXCEPT !.seed = seed]
       /\ rngState = seededRandom(seed)
  /\ lastOp = "init"
  /\ FavIdle
  /\ canvas = <<>>
  /\ sigStyle = ""
  /\ SketchIdle
  /\ CodecIdle
  /\ draws = 0
  /\ runs = <<>>
  /\ favHash = <<>>
  /\ previews = <<>>
  /\ UIIdle

\* rng(): s = (a * s + c) >>> 0; return s / m
CallRng ==
  /\ draws < MaxCalls
  /\ rngState' = LcgNext(rngState)
  /\ draws' = draws + 1
  /\ lastOp' = "rng"
  /\ UNCHANGED <<state, runs, favHash, previews, exceptPattern>>

NextStream == CallRng

SpecStream == InitStream /\ [][NextStream]_vars

\* the four base-256 digits of x, lowest first
Limbs(x) == [i \in 0..3 |-> (x \div (256 ^ i)) % 256]

\* (a * s + c) mod 2^32 by long multiplication on base-256 digits
LcgReference(s) ==
  LET a == Limbs(LcgA)
      c == Limbs(LcgC)
      \* column sums of the product, before carries
      col(k) == IF k = 0 THEN a[0] * s[0]
                ELSE IF k = 1 THEN a[0] * s[1] + a[1] * s[0]
                ELSE IF k = 2 THEN a[0] * s[2] + a[1] * s[1] + a[2] * s[0]
                ELSE a[0] * s[3] + a[1] * s[2] + a[2] * s[1] + a[3] * s[0]
      t0 == col(0) + c[0]
      t1 == col(1) + c[1] + (t0 \div 256)
      t2 == col(2) + c[2] + (t1 \div 256)
      t3 == col(3) + c[3] + (t2 \div 256)
  IN  [i \in 0..3 |-> IF i = 0 THEN t0 % 256 ELSE IF i = 1 THEN t1 % 256
                      ELSE IF i = 2 THEN t2 % 256 ELSE t3 % 256]

\* the n-th state of the generator started from seed mod 2^32
RECURSIVE LcgState(_, _)
LcgState(seed, n) == IF n = 0 THEN Limbs(seed) ELSE LcgReference(LcgState(seed, n - 1))

\* C14: the n-th value seededRandom(seed) returns is the n-th state of
\* state' = (1664525 * state + 1013904223) mod 2^32 started from seed mod
\* 2^32, divided by 2^32, and every value v satisfies 0 <= v < 1.
StreamIsLcg ==
  lastOp = "rng" =>
    LET ref == LcgState(state.seed, draws)
    IN  /\ rngState[1] = ref[3] * 256 + ref[2]
        /\ rngState[2] = ref[1] * 256 + ref[0]
        \* 0 <= s < 2^32, hence 0 <= s / 2^32 < 1
        /\ rngState[1] \in 0..(Half - 1)
        /\ rngState[2] \in 0..(Half - 1)

\* the third value of the stream of seed 10: state 2863095995
StreamIsLcgWitness ==
  /\ lastOp = "rng"
  /\ state.seed = 10
  /\ draws = 3
  /\ rngState = <<43687, 24763>>


(***************************************************************************)
(* Properties of the hash format.                                          *)
(***************************************************************************)
\* a base-36 numeral as toString(36) writes it: lower-case digits, no
\* leading zero, and the number it stands for
IsNumeral(part, n) ==
  /\ Len(part) >= 1
  /\ \A i \in 1..Len(part) : \E d \in 1..36 : Digits36[d] = part[i]
  /\ Len(part) > 1 => part[1] # "0"
  /\ parseInt36(part) = n

\* C15: generateHash returns the base-36 fields seed, themeIndex, complexity,
\* aspectIndex, bgIndex and sigPart joined by '-' in that order; aspectIndex
\* is 0 square, 1 landscape, 2 portrait; bgIndex is the position of bgColor
\* in black + theme colors; sigPart is 'a' for auto and otherwise the
\* position of sigColor in that palette.
HashFormat ==
  lastOp = "encode" =>
    LET parts == split(hashText, "-")
        palette == <<"#000000">> \o THEME_LIST[parseInt36(parts[2]) + 1].colors
    IN  /\ Len(parts) = 6
        /\ IsNumeral(parts[1], state.seed)
        /\ \E t \in 0..(Len(THEME_LIST) - 1) :
             IsNumeral(parts[2], t) /\ THEME_LIST[t + 1].id = state.themeId
        /\ IsNumeral(parts[3], state.complexity)
        /\ parts[4] = (IF state.aspectMode = "square" THEN <<"0">>
                       ELSE IF state.aspectMode = "landscape" THEN <<"1">> ELSE <<"2">>)
        /\ \E b \in 0..5 : IsNumeral(parts[5], b) /\ palette[b + 1] = state.bgColor
        /\ IF state.sigColor = null THEN parts[6] = <<"a">>
           ELSE \E i \in 0..5 : IsNumeral(parts[6], i) /\ palette[i + 1] = state.sigColor

\* the hash of the largest seed, the last theme, portrait, the last palette
\* color and a black signature
HashFormatWitness ==
  /\ lastOp = "encode"
  /\ state.seed = MaxSeed
  /\ state.themeId = "francoPhile"
  /\ state.complexity = 5
  /\ state.aspectMode = "portrait"
  /\ state.bgColor = "#e0e1dd"
  /\ state.sigColor = "#000000"
  /\ hashText = <<"g","j","d","g","x","q","-","6","-","5","-","2","-","5","-","0">>


\* the palette of the theme a text names in its second segment
DecodedPalette == <<"#000000">> \o THEME_LIST[parseInt36(Parts[2]) + 1].colors

\* clamp(i, 0, 5)
Clamp05(i) == IF i < 0 THEN 0 ELSE IF i > 5 THEN 5 ELSE i

\* C16: on a successful decode bgColor is entry clamp(bgIndex, 0, 5) of
\* black + the colors of the theme decoded from the same hash, never of the
\* previously selected theme, for every previous theme and background index.
BgFromDecodedTheme ==
  (lastOp = "parse" /\ ret = TRUE) =>
    LET raw == IF Len(Parts) >= 5 THEN parseInt36(Parts[5]) ELSE 0
        bgIndex == IF isNaN(raw) THEN 0 ELSE raw
    IN  /\ state.themeId = THEME_LIST[parseInt36(Parts[2]) + 1].id
        /\ state.bgColor = DecodedPalette[Clamp05(bgIndex) + 1]

\* a background index above the palette, decoded while another theme was
\* selected: the last color of the decoded theme
BgFromDecodedThemeWitness ==
  /\ lastOp = "parse"
  /\ ret = TRUE
  /\ hashText = <<"a","-","1","-","2","-","0","-","z","-","z">>
  /\ before.themeId = "francoPhile"
  /\ state.themeId = "oceanFire"
  /\ state.bgColor = "#669bbc"

\* C17: on a successful decode a sixth segment 'a' sets sigColor to auto, any
\* other sixth segment that parses as index i sets it to entry clamp(i, 0, 5)
\* of black + the colors of the decoded theme, and a hash without a sixth
\* segment sets it to auto whatever it was before.
SigFromSixthSegment ==
  (lastOp = "parse" /\ ret = TRUE) =>
    IF Len(Parts) < 6 THEN state.sigColor = null
    ELSE IF Parts[6] = <<"a">> THEN state.sigColor = null
    ELSE ~isNaN(parseInt36(Parts[6])) =>
           state.sigColor = DecodedPalette[Clamp05(parseInt36(Parts[6])) + 1]

\* an upper-case A is the index 10, not auto: the last color of the decoded
\* theme replaces the signature color set before
SigFromSixthSegmentWitness ==
  /\ lastOp = "parse"
  /\ ret = TRUE
  /\ hashText = <<"a","-","4","-","2","-","0","-","9","-","A">>
  /\ before.themeId = "olives"
  /\ before.sigColor = "#dda15e"
  /\ state.sigColor = "#eae2b7"

(***************************************************************************)
(* The hash on the page and in the URL.                                    *)
(***************************************************************************)
\* the handlers that write a field the hash encodes, by the name they leave
EncodingOps ==
  { "themeSelect", "nextTheme", "randomTheme", "setAspect", "complexitySlider",
    "generate", "bgSwatch", "sigSwatch", "sigAuto", "load", "loadFavorite" }

\* C18: at the end of every handler that changes an encoded field the text of
\* the seedHash element equals generateHash() of the current configuration.
HashDisplayCurrent == lastOp \in EncodingOps => seedHash = generateHash(state)

\* the same for the handlers that call updateHashDisplay(): all of them but
\* applyTheme and setAspect
HashDisplayCurrentWhenUpdated ==
  lastOp \in EncodingOps \ {"themeSelect", "nextTheme", "randomTheme", "setAspect"}
    => seedHash = generateHash(state)

\* C19: at the end of every handler that changes an encoded field, and at the
\* end of setup, the h parameter of the URL equals generateHash() of the
\* current configuration.
UrlCurrent == lastOp \in EncodingOps \cup {"setupDone"} => urlHash = generateHash(state)

\* a theme change has rewritten the URL to a hash the page had not shown before
UrlCurrentWitness ==
  /\ lastOp \in {"themeSelect", "nextTheme", "randomTheme"}
  /\ "themeId" \in changed
  /\ urlHash = generateHash(state)
  /\ urlHash # seedHash

(***************************************************************************)
(* SpecFav: the favorites list of state.js under the favorite button, the  *)
(* gallery's delete buttons and name inputs, and changes of configuration. *)
(***************************************************************************)
\* the list is not let grow beyond this many records
MaxFavorites == 3

\* the date new records get
Today == "2026-01-01"

\* the template string `Untitled ${favoritesCache.length + 1}`
Untitled(n) == <<"Untitled", n>>

\* addFavorite(name) without the test for an existing record
addFavoriteNoCheck(cache, st, name) ==
  LET hash == generateHash(st)
  IN  [ret |-> TRUE, saved |-> TRUE,
       cache |-> Append(cache, [hash |-> hash,
                                name |-> IF name # "" THEN name ELSE Untitled(Len(cache) + 1),
                                date |-> Today])]

\* addFavorite(name): what it returns and the list afterwards
addFavorite(cache, st, name) ==
  LET hash == generateHash(st)
  IN  IF HashIndex(cache, hash) >= 0 THEN [ret |-> FALSE, saved |-> FALSE, cache |-> cache]
      ELSE [ret |-> TRUE, saved |-> TRUE,
            cache |-> Append(cache, [hash |-> hash,
                                     name |-> IF name # "" THEN name
                                              ELSE Untitled(Len(cache) + 1),
                                     date |-> Today])]

\* removeFavorite that drops the first record of the list when the hash is
\* found
removeFavoriteShift(cache, hash) ==
  LET idx == HashIndex(cache, hash)
  IN  IF idx >= 0
      THEN [ret |-> TRUE, saved |-> TRUE, cache |-> Tail(cache)]
      ELSE [ret |-> FALSE, saved |-> FALSE, cache |-> cache]

\* removeFavorite without the test of idx: splice(-1, 1) drops the last
\* record when the hash is not found
removeFavoriteUnchecked(cache, hash) ==
  LET idx == HashIndex(cache, hash)
  IN  IF idx >= 0
      THEN [ret |-> TRUE, saved |-> TRUE,
            cache |-> SubSeq(cache, 1, idx) \o SubSeq(cache, idx + 2, Len(cache))]
      ELSE [ret |-> TRUE, saved |-> TRUE, cache |-> SubSeq(cache, 1, Len(cache) - 1)]

\* removeFavorite(hash): splice(idx, 1) at the first record with that hash
removeFavorite(cache, hash) ==
  LET idx == HashIndex(cache, hash)
  IN  IF idx >= 0
      THEN [ret |-> TRUE, saved |-> TRUE,
            cache |-> SubSeq(cache, 1, idx) \o SubSeq(cache, idx + 2, Len(cache))]
      ELSE [ret |-> FALSE, saved |-> FALSE, cache |-> cache]

\* renameFavorite(hash, newName): the first record with that hash gets the name
renameFavorite(cache, hash, newName) ==
  LET idx == HashIndex(cache, hash)
  IN  IF idx >= 0
      THEN [ret |-> TRUE, saved |-> TRUE, cache |-> [cache EXCEPT ![idx + 1].name = newName]]
      ELSE [ret |-> FALSE, saved |-> FALSE, cache |-> cache]

\* saveFavoritesToStorage(): the item holds the list as JSON
saveFavoritesToStorage(cache) == [item |-> "json", list |-> cache]

\* what a call on the favorites leaves
LeaveFavorites(op, hash, result) ==
  /\ favArg' = hash
  /\ favoritesCache' = result.cache
  /\ favStored' = (IF result.saved THEN saveFavoritesToStorage(result.cache) ELSE favStored)
  /\ favRet' = result.ret
  /\ favPrev' = favoritesCache
  /\ lastOp' = IF result.ret THEN op ELSE op \o "Rejected"
  \* toggleFavorite and the delete handler end with updateFavoriteButton()
  /\ favActive' = IF op \in {"toggleOn", "toggleOff", "removeFavorite"}
                  THEN updateFavoriteButton(result.cache, state, favActive)
                  ELSE favActive
  /\ UNCHANGED <<state, codecVars, patVars, uiVars, expVars, drawVars, sketchVars>>

\* a call of addFavorite(name)
AddFavoriteCall(Names) ==
  /\ Ready
  /\ Len(favoritesCache) < MaxFavorites
  /\ \E name \in Names : LeaveFavorites("addFavorite", generateHash(state), addFavorite(favoritesCache, state, name))

\* the click handler of a delete button of the gallery
RemoveFavoriteCall(Hashes) ==
  /\ Ready
  /\ \E hash \in Hashes : LeaveFavorites("removeFavorite", hash, removeFavorite(favoritesCache, hash))

\* the change handler of a name input of the gallery
RenameFavoriteCall(Hashes, Names) ==
  /\ Ready
  /\ \E hash \in Hashes, newName \in Names :
       LeaveFavorites("renameFavorite", hash, renameFavorite(favoritesCache, hash, newName))

\* toggleFavorite(), the click handler of the favorite button
ToggleFavorite ==
  /\ Ready
  /\ \E hash \in { generateHash(state) } :
       IF isFavorite(favoritesCache, hash)
       THEN LeaveFavorites("toggleOff", hash, removeFavorite(favoritesCache, hash))
       ELSE /\ Len(favoritesCache) < MaxFavorites
            /\ LeaveFavorites("toggleOn", hash, addFavorite(favoritesCache, state, ""))

\* the hashes of the records in the list
ListedHashes == { favoritesCache[i].hash : i \in 1..Len(favoritesCache) }

\* favorites lists the store can hand out: none, one record in the short
\* hash format, that record after one of the first configuration
StoredFavorites ==
  LET one == [hash |-> <<"a","-","0","-","2">>, name |-> "Seed one", date |-> "2025-01-01"]
      two == [hash |-> <<"a","-","0","-","2","-","0","-","0","-","a">>, name |-> "",
              date |-> "2025-01-02"]
  IN  { <<>>, <<one>>, <<two, one>> }

\* what the store holds when loadFavorites ends with an empty list it did
\* not save: no item or an item JSON.parse throws on (and no favorites.json)
UnreadableItems == { NoItem, [item |-> "corrupt", list |-> <<>>] }

FavoriteNames == {"", "Dusk"}
FavoriteSeeds == {10, 47}

InitFav ==
  /\ state = generatePattern(recalcGridDims([state0 EXCEPT !.seed = 10]), <<0, 0>>).state
  /\ lastOp = "ready"
  /\ \/ favoritesCache \in StoredFavorites /\ favStored = saveFavoritesToStorage(favoritesCache)
     \/ favoritesCache = <<>> /\ favStored \in UnreadableItems
  /\ favRet = FALSE
  /\ favPrev = favoritesCache
  /\ favArg = <<>>
  /\ favActive = isFavorite(favoritesCache, generateHash(state))
  /\ canvas = <<>>
  /\ sigStyle = ""
  /\ SketchIdle
  /\ CodecIdle
  /\ PatternIdle
  /\ ExportIdle
  /\ p5SyncRedraw \in BOOLEAN
  /\ phase = "ready"
  /\ drawLog = {}
  /\ changed = {}
  /\ bgSwatches = getBackgroundPalette(state)
  /\ sigSwatches = getSignaturePalette(state)
  /\ seedHash = generateHash(state)
  /\ urlHash = generateHash(state)

NextFav ==
  \/ AddFavoriteCall(FavoriteNames)
  \/ RemoveFavoriteCall(ListedHashes \cup {generateHash(state)})
  \/ RenameFavoriteCall(ListedHashes \cup {generateHash(state)}, FavoriteNames)
  \/ ToggleFavorite
  \/ GenerateClick(FavoriteSeeds)
  \/ LoadFavorite(ListedHashes)

SpecFav == InitFav /\ [][NextFav]_vars

\* C20: no two favorite records have the same hash, from a list without
\* duplicates on, under addFavorite, removeFavorite, renameFavorite and
\* toggleFavorite calls and changes of configuration.
FavoritesUnique ==
  \A i, j \in 1..Len(favoritesCache) :
    i # j => favoritesCache[i].hash # favoritesCache[j].hash

\* addFavorite was called for a configuration that is in a list of several
\* records already, and has left the list alone
FavoritesUniqueWitness ==
  /\ lastOp = "addFavoriteRejected"
  /\ Len(favoritesCache) >= 2
  /\ generateHash(state) \in ListedHashes

(***************************************************************************)
(* SpecUiOnly: a hash is taken, then gridSize, showGrid and mode are set   *)
(* to other values, and a hash is parsed.                                  *)
(***************************************************************************)
\* the state object with state.mode set, as the mode buttons leave it; the
\* object of state.js has no mode property before the first click
WithMode(st, mode) ==
  [ f \in DOMAIN st \cup {"mode"} |-> IF f = "mode" THEN mode ELSE st[f] ]

\* the values the grid slider, the showGrid checkbox and the mode buttons write
UiOnlySizes == {2, 10, 24}
UiOnlyModes == {"triangle", "circle"}

\* the texts parsed afterwards
UiOnlyTexts ==
  { <<"a","-","0","-","2">>,
    <<"1","b","-","6","-","5","-","2","-","3","-","4">>,
    <<"a","-","1">>,
    <<"a","-","7","-","2">> }

InitUiOnly ==
  /\ state \in StartConfigs \cup {[state0 EXCEPT !.seed = 10]}
  /\ lastOp = "init"
  /\ FavIdle
  /\ canvas = <<>>
  /\ sigStyle = ""
  /\ SketchIdle
  /\ CodecIdle
  /\ PatternIdle
  /\ UIIdle

\* the writes of the grid slider, the showGrid checkbox and the mode buttons
\* to the state object
ChangeUiOnly ==
  /\ lastOp = "encode"
  /\ \E g \in UiOnlySizes, show \in BOOLEAN, mode \in UiOnlyModes \cup {"unset"} :
       LET s1 == recalcGridDims([state EXCEPT !.gridSize = g, !.showGrid = show])
       IN  state' = IF mode = "unset" THEN s1 ELSE WithMode(s1, mode)
  /\ lastOp' = "uiOnly"
  /\ UNCHANGED <<hashText, before, ret, exceptCodec>>

\* parseHash(hash) on a pasted text
ParseAfter ==
  /\ lastOp \in {"encode", "uiOnly"}
  /\ \E h \in UiOnlyTexts :
       LET r == parseHash(state, h)
       IN  /\ hashText' = h
           /\ state' = r.state
           /\ ret' = r.ret
  /\ before' = state
  /\ lastOp' = "parse"
  /\ UNCHANGED exceptCodec

NextUiOnly == Encode \/ ChangeUiOnly \/ ParseAfter

SpecUiOnly == InitUiOnly /\ [][NextUiOnly]_vars

\* the fields the hash leaves out
UiOnly(st) ==
  [ gridSize |-> st.gridSize, showGrid |-> st.showGrid,
    mode |-> IF "mode" \in DOMAIN st THEN st.mode ELSE "unset" ]

\* C21: two configurations that agree on seed, theme, complexity, aspect mode,
\* bgColor and sigColor have the same generateHash() text whatever their
\* gridSize, showGrid and mode are, and a successful parseHash leaves gridSize,
\* showGrid and mode as they were.
HashIgnoresUiOnly ==
  /\ (lastOp = "uiOnly" /\ Encoded(state) = Encoded(before))
        => generateHash(state) = hashText
  /\ (lastOp = "parse" /\ ret = TRUE) => UiOnly(state) = UiOnly(before)

\* the hash was taken, the grid size set to 24, the grid hidden and the mode
\* set to circle, and a text was then parsed into another configuration
HashIgnoresUiOnlyWitness ==
  /\ lastOp = "parse"
  /\ ret = TRUE
  /\ UiOnly(state) = [gridSize |-> 24, showGrid |-> FALSE, mode |-> "circle"]
  /\ Encoded(state) # Encoded(before)

(***************************************************************************)
(* The range of complexity.                                                *)
(***************************************************************************)
\* C22: with a slider that delivers 1..5, complexity is an integer in 1..5 in
\* every state reached by slider inputs and hash loads (load button, gallery
\* favorite, URL), and every pattern was generated at such a complexity.
ComplexityInRange ==
  /\ state.complexity \in 1..5
  /\ state.pattern # NoPattern => state.pattern.gridRes \in 2..6
  /\ \A d \in drawLog : d.complexity \in 1..5

\* at complexity 5 a favorite whose hash carries no complexity in 1..5 was
\* turned down, and the pattern on screen is the one of complexity 5
ComplexityInRangeWitness ==
  /\ lastOp = "favoriteRejected"
  /\ state.complexity = 5
  /\ state.pattern.gridRes = 6

(***************************************************************************)
(* exportHighRes on a page that lacks a node or the capture library.       *)
(***************************************************************************)
\* C23: when the wrapper, the canvas container, the signature element or
\* html2canvas is missing, every exportHighRes call returns with the inline
\* styles and the canvas size as they were, and none gets to its download.
ExportAbortsClean ==
  (domMissing # {} \/ ~html2canvas) =>
     /\ styles = PageStyles
     /\ canvasSize = getCanvasSizeForAspect(state, WindowHeight)
     /\ \A i \in 1..Len(exports) :
          /\ exports[i].pc = "returned"
          /\ exports[i].left = [styles |-> exports[i].prev, canvasSize |-> canvasSize]

\* on a page without its signature element, with html2canvas loaded, two
\* exports have been confirmed and have returned
ExportAbortsCleanWitness ==
  /\ domMissing = {"signature"}
  /\ html2canvas
  /\ Len(exports) = 2
  /\ \A i \in 1..2 : exports[i].pc = "returned"

(***************************************************************************)
(* The colors across a theme change.                                       *)
(***************************************************************************)
ThemeOps == {"themeSelect", "nextTheme", "randomTheme"}

\* C24: a theme change leaves bgColor alone when it is in [black + the new
\* theme's colors] and makes it black otherwise; it leaves sigColor alone when
\* it is auto or in the new palette and makes it auto otherwise.
ThemeRevalidates ==
  [][ lastOp' \in ThemeOps =>
        /\ state'.bgColor = IF state.bgColor \in PaletteSet(state'.themeId)
                            THEN state.bgColor ELSE "#000000"
        /\ state'.sigColor = IF state.sigColor = null
                                \/ state.sigColor \in PaletteSet(state'.themeId)
                             THEN state.sigColor ELSE null ]_vars

\* the theme went from autumnIsh to oceanFire: the background '#003049', which
\* both palettes hold, was kept and the signature color was reset to auto
ThemeRevalidatesWitness ==
  /\ lastOp \in ThemeOps
  /\ state.themeId = "oceanFire"
  /\ state.bgColor = "#003049"
  /\ state.sigColor = null
  /\ changed = {"themeId", "sigColor"}

\* ---------------------------------------------------------------------------
\* Order in which the generators of modes.js consume the random stream
\* ---------------------------------------------------------------------------

\* the first n values a stream delivers when it starts in state s
RECURSIVE StreamFrom(_, _)
StreamFrom(s, n) ==
  IF n = 0 THEN <<>>
  ELSE LET t == LcgNext(s) IN <<t>> \o StreamFrom(t, n - 1)

\* sub-cell number i of run r: the corner points of the sub-cell in row-major
\* numbering (row = i \div k, column = i % k)
CornerOf(i, k, dx, dy) == [x |-> <<(i % k) + dx, k>>, y |-> <<(i \div k) + dy, k>>]

\* what run r made of sub-cell i agrees with draws 3i, 3i+1, 3i+2 of the
\* stream (values[3i+1 .. 3i+3], draws being counted from 0)
SubCellUsesItsDraws(r, i, values) ==
  LET k  == r.complexity
      d0 == values[3 * i + 1]
      d1 == values[3 * i + 2]
      d2 == values[3 * i + 3]
  IN  IF r.mode = "circle"
      THEN LET cell == r.pattern.cells[i + 1]
           IN  /\ cell.x = <<i % k, k>>
               /\ cell.y = <<i \div k, k>>
               /\ cell.corner = FloorTimes(d0, 4)
               /\ cell.bgColorIndex = FloorTimes(d1, 8)
               /\ cell.arcColorIndex = FloorTimes(d2, 8)
      ELSE LET first  == r.pattern.triangles[2 * i + 1]
               second == r.pattern.triangles[2 * i + 2]
           IN  /\ first.vertices[1] = CornerOf(i, k, 0, 0)
               /\ second.vertices[3] = CornerOf(i, k, 0, 1)
               /\ (first.vertices[3] = CornerOf(i, k, 1, 1)) = GreaterThanHalf(d0)
               /\ first.colorIndex = FloorTimes(d1, 8)
               /\ second.colorIndex = FloorTimes(d2, 8)

\* C25: every run of generatePatternForMode visits the k*k sub-cells in
\* row-major order and draws exactly three values per sub-cell: sub-cell i
\* uses draws 3i, 3i+1, 3i+2 of the stream, in triangle mode as diagonal
\* direction (value > 0.5), first and second color index, in circle mode as
\* corner selector, background and arc color index; the stream is left
\* exactly 3*k*k draws further
DrawOrder ==
  /\ \A n \in 1..Len(runs) :
       runs[n].mode \in {"triangle", "circle"} =>
         LET r      == runs[n]
             k      == r.complexity
             values == StreamFrom(randomSeed(r.seed), 3 * k * k)
         IN  \A i \in 0..(k * k - 1) : SubCellUsesItsDraws(r, i, values)
  /\ lastOp = "generatePatternForMode" =>
       LET k == state.complexity
       IN  rngState = StreamFrom(randomSeed(state.seed), 3 * k * k)[3 * k * k]

\* a triangle run and a circle run of the same seed with at least two rows, in
\* which a later sub-cell got a diagonal different from the first one's
DrawOrderWitness ==
  /\ Len(runs) = 2
  /\ runs[1].mode = "triangle"
  /\ runs[2].mode = "circle"
  /\ runs[1].complexity >= 2
  /\ runs[2].complexity = runs[1].complexity
  /\ lastOp = "generatePatternForMode"
  /\ \E i \in 1..(runs[1].complexity * runs[1].complexity - 1) :
       runs[1].pattern.triangles[2 * i + 1].vertices[3]
         # CornerOf(i, runs[1].complexity,
                    IF runs[1].pattern.triangles[1].vertices[3] = CornerOf(0, runs[1].complexity, 1, 1)
                    THEN 1 ELSE 0,
                    1)

\* ---------------------------------------------------------------------------
\* The two triangles of a sub-cell
\* ---------------------------------------------------------------------------

\* the set of the three vertices of a triangle
Corners(tri) == { tri.vertices[j] : j \in 1..3 }

\* C26: in every triangle pattern, for every sub-cell with corners TL, TR, BL,
\* BR, a true diagonal draw yields (TL, TR, BR) and (TL, BR, BL), a false one
\* (TL, TR, BL) and (TR, BR, BL); the first triangle carries the first color
\* index and the second the second; the two triangles share exactly the two
\* end points of one diagonal and together use all four corners
VertexSelection ==
  \A n \in 1..Len(runs) :
    runs[n].mode \in {"triangle", "core"} =>
      LET r      == runs[n]
          k      == r.complexity
          values == StreamFrom(randomSeed(r.seed), 3 * k * k)
      IN  \A i \in 0..(k * k - 1) :
            LET TL == CornerOf(i, k, 0, 0)
                TR == CornerOf(i, k, 1, 0)
                BL == CornerOf(i, k, 0, 1)
                BR == CornerOf(i, k, 1, 1)
                first  == r.pattern.triangles[2 * i + 1]
                second == r.pattern.triangles[2 * i + 2]
            IN  /\ IF GreaterThanHalf(values[3 * i + 1])
                   THEN /\ first.vertices = <<TL, TR, BR>>
                        /\ second.vertices = <<TL, BR, BL>>
                   ELSE /\ first.vertices = <<TL, TR, BL>>
                        /\ second.vertices = <<TR, BR, BL>>
                /\ first.colorIndex = FloorTimes(values[3 * i + 2], 8)
                /\ second.colorIndex = FloorTimes(values[3 * i + 3], 8)
                /\ Corners(first) \cap Corners(second) \in { {TL, BR}, {TR, BL} }
                /\ Corners(first) \cup Corners(second) = {TL, TR, BL, BR}

\* a triangle pattern of generatePatternForMode that holds a sub-cell split
\* along TL-BR and a sub-cell split along TR-BL, with different colors on the
\* two triangles of the first sub-cell
VertexSelectionWitness ==
  /\ Len(runs) >= 1
  /\ runs[1].mode = "triangle"
  /\ runs[1].complexity >= 2
  /\ runs[1].pattern.triangles[1].colorIndex # runs[1].pattern.triangles[2].colorIndex
  /\ \E i, j \in 0..(runs[1].complexity * runs[1].complexity - 1) :
       /\ runs[1].pattern.triangles[2 * i + 1].vertices[3] = CornerOf(i, runs[1].complexity, 1, 1)
       /\ runs[1].pattern.triangles[2 * j + 1].vertices[3] = CornerOf(j, runs[1].complexity, 0, 1)

\* ---------------------------------------------------------------------------
\* The renderer of modes.js: drawCellForMode
\* ---------------------------------------------------------------------------

\* p5's angle constants, in degrees
HALF_PI == 90
PI == 180
TWO_PI == 360

\* the tile sizes handed to drawCellForMode: multiples of 60, so that
\* cell.x * size is a whole number for every complexity 1..5
TileSizes == {60, 120}

\* q * size for a coordinate q = <<numerator, denominator>>
Scaled(q, size) == (q[1] * size) \div q[2]

\* colors[index % colors.length]
ColorAt(colors, index) == colors[(index % Len(colors)) + 1]

\* what a variable of drawCircleCell holds when no case of the switch set it
undefined == "undefined"

\* the switch of drawCircleCell with the centers of corners 1 and 3 exchanged
CircleCellArcMirrored(x, y, w, h, corner) ==
  CASE corner = 0 -> [cx |-> x, cy |-> y, startAngle |-> 0, endAngle |-> HALF_PI]
    [] corner = 1 -> [cx |-> x, cy |-> y + h, startAngle |-> HALF_PI, endAngle |-> PI]
    [] corner = 2 -> [cx |-> x + w, cy |-> y + h, startAngle |-> PI, endAngle |-> PI + HALF_PI]
    [] corner = 3 -> [cx |-> x + w, cy |-> y, startAngle |-> PI + HALF_PI, endAngle |-> TWO_PI]
    [] OTHER -> [cx |-> undefined, cy |-> undefined,
                 startAngle |-> undefined, endAngle |-> undefined]

\* the switch of drawCircleCell: center and angles of the wedge
CircleCellArc(x, y, w, h, corner) ==
  CASE corner = 0 -> [cx |-> x, cy |-> y, startAngle |-> 0, endAngle |-> HALF_PI]
    [] corner = 1 -> [cx |-> x + w, cy |-> y, startAngle |-> HALF_PI, endAngle |-> PI]
    [] corner = 2 -> [cx |-> x + w, cy |-> y + h, startAngle |-> PI, endAngle |-> PI + HALF_PI]
    [] corner = 3 -> [cx |-> x, cy |-> y + h, startAngle |-> PI + HALF_PI, endAngle |-> TWO_PI]
    [] OTHER -> [cx |-> undefined, cy |-> undefined,
                 startAngle |-> undefined, endAngle |-> undefined]

\* the two p5 calls drawCircleCell makes for one cell: rect, then arc
CircleCellCalls(cell, size, colors) ==
  LET x == Scaled(cell.x, size)
      y == Scaled(cell.y, size)
      w == Scaled(cell.w, size)
      h == Scaled(cell.h, size)
      a == CircleCellArc(x, y, w, h, cell.corner)
  IN  << [call |-> "rect", fill |-> ColorAt(colors, cell.bgColorIndex),
          x |-> x, y |-> y, w |-> w, h |-> h],
         [call |-> "arc", fill |-> ColorAt(colors, cell.arcColorIndex),
          cx |-> a.cx, cy |-> a.cy, w |-> w * 2, h |-> h * 2,
          startAngle |-> a.startAngle, endAngle |-> a.endAngle] >>

\* for (const cell of pattern.cells) throws when the pattern has no cells
TypeError == <<"TypeError">>

RECURSIVE CircleCells(_, _, _, _)
CircleCells(cells, j, size, colors) ==
  IF j > Len(cells) THEN <<>>
  ELSE CircleCellCalls(cells[j], size, colors) \o CircleCells(cells, j + 1, size, colors)

drawCircleCell(pattern, size, colors) ==
  IF "cells" \notin DOMAIN pattern THEN TypeError
  ELSE CircleCells(pattern.cells, 1, size, colors)

drawTriangleCell(pattern, size, colors) ==
  IF "triangles" \notin DOMAIN pattern THEN TypeError
  ELSE [ j \in 1..Len(pattern.triangles) |->
           LET tri == pattern.triangles[j]
           IN  [call |-> "shape", fill |-> ColorAt(colors, tri.colorIndex),
                vertices |-> [ v \in 1..3 |-> [x |-> Scaled(tri.vertices[v].x, size),
                                               y |-> Scaled(tri.vertices[v].y, size)] ]] ]

\* drawCellForMode with the test pattern.mode === 'triangle' in place of
\* pattern.mode === 'circle'
drawCellForModeInverted(pattern, size, colors) ==
  IF pattern.mode = "triangle" THEN drawCircleCell(pattern, size, colors)
  ELSE drawTriangleCell(pattern, size, colors)

drawCellForMode(pattern, size, colors) ==
  IF pattern.mode = "circle" THEN drawCircleCell(pattern, size, colors)
  ELSE drawTriangleCell(pattern, size, colors)

\* the mode values handed to generatePatternForMode: the two the module
\* names and two it does not
DrawModes == {"triangle", "circle", "hexagon", "Circle"}

InitDraw ==
  /\ \E s \in SeedPool, k \in 1..5, t \in {"olives", "oceanFire"} :
       state = [state0 EXCEPT !.seed = s, !.complexity = k, !.themeId = t]
  /\ lastOp = "init"
  /\ FavIdle
  /\ canvas = <<>>
  /\ sigStyle = ""
  /\ SketchIdle
  /\ CodecIdle
  /\ PatternIdle
  /\ UIIdle

\* drawCellForMode(pattern, size, colors, p5) for the pattern generated last
DrawCell ==
  /\ Len(runs) >= 1
  /\ \E size \in TileSizes :
       canvas' = drawCellForMode(runs[Len(runs)].pattern, size, getThemeColors(state))
  /\ lastOp' = "drawCellForMode"
  /\ UNCHANGED <<state, codecVars, patVars, uiVars, expVars, favVars, btnVars, sigStyle, sketchVars>>

NextDraw == GenerateForModeOf(DrawModes) \/ DrawCell

SpecDraw == InitDraw /\ [][NextDraw]_vars

\* the pattern the last drawCellForMode was handed
Drawn == runs[Len(runs)].pattern

\* cos and sin of a multiple of 90 degrees
AxisX(deg) == CASE deg % 360 = 0 -> 1 [] deg % 360 = 180 -> -1 [] OTHER -> 0
AxisY(deg) == CASE deg % 360 = 90 -> 1 [] deg % 360 = 270 -> -1 [] OTHER -> 0

\* the point (px, py) lies in the rectangle of a rect call (y pointing down)
InRect(rect, px, py) ==
  /\ rect.x <= px /\ px <= rect.x + rect.w
  /\ rect.y <= py /\ py <= rect.y + rect.h

\* C27: for every cell drawCircleCell draws, the wedge center is the cell
\* corner named by the corner selector c (0 top-left, 1 top-right, 2
\* bottom-right, 3 bottom-left), the angles run from 90*c to 90*(c+1) degrees,
\* the radius is the cell width, and the quarter disc lies inside the cell
\* rectangle: its center, the end points of its two straight edges and the
\* far corner of the square they span are points of the rectangle
WedgeAnchored ==
  (lastOp = "drawCellForMode" /\ Drawn.mode = "circle") =>
    /\ Len(canvas) = 2 * Len(Drawn.cells)
    /\ \A j \in 1..Len(Drawn.cells) :
         LET c    == Drawn.cells[j].corner
             rect == canvas[2 * j - 1]
             arc  == canvas[2 * j]
             rx   == arc.w \div 2
             ry   == arc.h \div 2
         IN  /\ rect.call = "rect" /\ arc.call = "arc"
             /\ rect.w > 0 /\ rect.h > 0
             /\ c \in 0..3
             /\ arc.cx = (IF c \in {1, 2} THEN rect.x + rect.w ELSE rect.x)
             /\ arc.cy = (IF c \in {2, 3} THEN rect.y + rect.h ELSE rect.y)
             /\ arc.startAngle = 90 * c
             /\ arc.endAngle = 90 * (c + 1)
             /\ arc.w = 2 * rect.w /\ arc.h = 2 * rect.h
             /\ InRect(rect, arc.cx, arc.cy)
             /\ InRect(rect, arc.cx + rx * AxisX(arc.startAngle),
                             arc.cy + ry * AxisY(arc.startAngle))
             /\ InRect(rect, arc.cx + rx * AxisX(arc.endAngle),
                             arc.cy + ry * AxisY(arc.endAngle))
             /\ InRect(rect, arc.cx + rx * (AxisX(arc.startAngle) + AxisX(arc.endAngle)),
                             arc.cy + ry * (AxisY(arc.startAngle) + AxisY(arc.endAngle)))

\* a circle pattern was drawn in which all four corner selectors occur
WedgeAnchoredWitness ==
  /\ lastOp = "drawCellForMode"
  /\ Drawn.mode = "circle"
  /\ \A c \in 0..3 : \E j \in 1..Len(Drawn.cells) :
       Drawn.cells[j].corner = c /\ canvas[2 * j].startAngle = 90 * c

\* the fill colors of the calls on the canvas
Fills == { canvas[j].fill : j \in 1..Len(canvas) }

\* C28: in every generated pattern each triangle's colorIndex is an integer in
\* 0..7, each circle cell's corner an integer in 0..3 and its bgColorIndex and
\* arcColorIndex integers in 0..7; the palette has five colors and every fill
\* the renderer looks up with colors[index % colors.length] is one of them
IndexRanges ==
  /\ \A n \in 1..Len(runs) :
       LET pat == runs[n].pattern
       IN  IF pat.mode = "circle"
           THEN \A j \in 1..Len(pat.cells) :
                  /\ pat.cells[j].corner \in 0..3
                  /\ pat.cells[j].bgColorIndex \in 0..7
                  /\ pat.cells[j].arcColorIndex \in 0..7
           ELSE \A j \in 1..Len(pat.triangles) : pat.triangles[j].colorIndex \in 0..7
  /\ Len(getThemeColors(state)) = 5
  /\ lastOp = "drawCellForMode" =>
       /\ canvas # TypeError
       /\ Fills \subseteq Range(getThemeColors(state))
       /\ Drawn.mode = "triangle" =>
            \A j \in 1..Len(canvas) :
              canvas[j].fill = getThemeColors(state)[(Drawn.triangles[j].colorIndex % 5) + 1]
       /\ Drawn.mode = "circle" =>
            \A j \in 1..Len(Drawn.cells) :
              /\ canvas[2 * j - 1].fill = getThemeColors(state)[(Drawn.cells[j].bgColorIndex % 5) + 1]
              /\ canvas[2 * j].fill = getThemeColors(state)[(Drawn.cells[j].arcColorIndex % 5) + 1]

\* a triangle pattern with the color indices 0 and 7 and a circle pattern with
\* the corners 0 and 3 and the color indices 0 and 7 were generated, and the
\* circle pattern was drawn: index 7 took the third color of the palette
IndexRangesWitness ==
  /\ lastOp = "drawCellForMode"
  /\ Len(runs) = 2
  /\ runs[1].pattern.mode = "triangle"
  /\ Drawn.mode = "circle"
  /\ \A c \in {0, 7} : \E j \in 1..Len(runs[1].pattern.triangles) :
       runs[1].pattern.triangles[j].colorIndex = c
  /\ \A c \in {0, 3} : \E j \in 1..Len(Drawn.cells) : Drawn.cells[j].corner = c
  /\ \A c \in {0, 7} : \E j \in 1..Len(Drawn.cells) : Drawn.cells[j].bgColorIndex = c
  /\ \A c \in {0, 7} : \E j \in 1..Len(Drawn.cells) : Drawn.cells[j].arcColorIndex = c
  /\ \E j \in 1..Len(Drawn.cells) :
       /\ Drawn.cells[j].arcColorIndex = 7
       /\ canvas[2 * j].fill = getThemeColors(state)[3]

\* ---------------------------------------------------------------------------
\* The signature color: getEffectiveSigColor and applySignatureColor
\* ---------------------------------------------------------------------------

\* the configurations the color controls can leave behind: a theme, a
\* background from its background palette, a signature color from its
\* signature palette or none (auto)
ColorConfigs ==
  UNION { { [state0 EXCEPT !.themeId = THEME_LIST[t].id, !.bgColor = bg, !.sigColor = sig] :
              bg \in Range(getBackgroundPalette([state0 EXCEPT !.themeId = THEME_LIST[t].id])),
              sig \in {null} \cup
                      Range(getSignaturePalette([state0 EXCEPT !.themeId = THEME_LIST[t].id])) } :
          t \in 1..Len(THEME_LIST) }

InitSig ==
  /\ state \in ColorConfigs
  /\ lastOp = "init"
  /\ FavIdle
  /\ canvas = <<>>
  /\ sigStyle = ""
  /\ SketchIdle
  /\ CodecIdle
  /\ PatternIdle
  /\ styles = PageStyles
  /\ canvasSize = <<0, 0>>
  /\ exports = <<>>
  /\ saveHidden = TRUE
  /\ html2canvas = TRUE
  /\ domMissing \in { {}, {"signature"} }
  /\ p5SyncRedraw = FALSE
  /\ phase = "off"
  /\ drawLog = {}
  /\ changed = {}
  /\ bgSwatches = <<>>
  /\ sigSwatches = <<>>
  /\ seedHash = <<>>
  /\ urlHash = <<>>

\* applySignatureColor(): nothing without the signature element, else the
\* effective color becomes the element's color
applySignatureColor ==
  /\ sigStyle' = (IF "signature" \in domMissing THEN sigStyle ELSE getEffectiveSigColor(state))
  /\ lastOp' = "applySignatureColor"
  /\ UNCHANGED <<state, codecVars, patVars, uiVars, expVars, favVars, btnVars, canvas, sketchVars>>

NextSig == applySignatureColor

SpecSig == InitSig /\ [][NextSig]_vars

\* C29: the color applySignatureColor gets from getEffectiveSigColor is
\* sigColor whenever sigColor is not auto; when it is auto it is #888888 on a
\* black background and #000000 on every other background
EffectiveSigColor ==
  (lastOp = "applySignatureColor" /\ "signature" \notin domMissing) =>
    /\ state.sigColor # null => sigStyle = state.sigColor
    /\ (state.sigColor = null /\ state.bgColor = "#000000") => sigStyle = "#888888"
    /\ (state.sigColor = null /\ state.bgColor # "#000000") => sigStyle = "#000000"

\* an automatic signature on a black background came out light grey
EffectiveSigColorWitness ==
  /\ lastOp = "applySignatureColor"
  /\ state.sigColor = null
  /\ state.bgColor = "#000000"
  /\ sigStyle = "#888888"

\* ---------------------------------------------------------------------------
\* Mode dispatch of generator and renderer
\* ---------------------------------------------------------------------------

\* C30: for every mode value handed to generatePatternForMode the pattern
\* carries a mode tag for which drawCellForMode takes the branch that reads
\* the field the generator filled: cells, drawn as one rect and one arc each,
\* for 'circle', and triangles, drawn as one shape each, otherwise; a mode
\* other than 'circle' or 'triangle' produces the pattern 'triangle' produces
\* and is rendered as triangles
ModeDispatch ==
  /\ \A n \in 1..Len(runs) :
       LET r == runs[n]
       IN  IF r.mode = "circle"
           THEN /\ r.pattern.mode = "circle"
                /\ "cells" \in DOMAIN r.pattern
                /\ Len(r.pattern.cells) = r.complexity * r.complexity
           ELSE /\ r.pattern.mode = "triangle"
                /\ "triangles" \in DOMAIN r.pattern
                /\ r.pattern = generateTrianglePattern(r.complexity + 1, randomSeed(r.seed)).pattern
  /\ lastOp = "drawCellForMode" =>
       /\ canvas # TypeError
       /\ IF runs[Len(runs)].mode = "circle"
          THEN /\ Len(canvas) = 2 * Len(Drawn.cells)
               /\ \A j \in 1..Len(Drawn.cells) :
                    canvas[2 * j - 1].call = "rect" /\ canvas[2 * j].call = "arc"
          ELSE /\ Len(canvas) = Len(Drawn.triangles)
               /\ \A j \in 1..Len(canvas) : canvas[j].call = "shape"

\* a pattern asked for with the mode 'hexagon' was drawn after a circle
\* pattern had been generated: it carries the tag 'triangle' and was drawn as
\* shapes
ModeDispatchWitness ==
  /\ lastOp = "drawCellForMode"
  /\ Len(runs) = 2
  /\ runs[1].mode = "circle"
  /\ runs[2].mode = "hexagon"
  /\ Drawn.mode = "triangle"
  /\ Len(canvas) = 2 * runs[2].complexity * runs[2].complexity
  /\ canvas[1].call = "shape"

(***************************************************************************)
(* SpecSketch: the single-file sketch (sketch.js) with its controls.  Its  *)
(* globals are the fields of the record sketch; the catalog is             *)
(* window.THEME_LIST.                                                      *)
(***************************************************************************)
\* getThemeColors(): THEMES_BY_ID[currentThemeId], else the first theme
getThemeColorsOfSketch(sk) ==
  IF \E i \in 1..Len(THEME_LIST) : THEME_LIST[i].id = sk.currentThemeId
  THEN THEME_LIST[CHOOSE i \in 1..Len(THEME_LIST) : THEME_LIST[i].id = sk.currentThemeId].colors
  ELSE THEME_LIST[1].colors

\* getThemeIndexById(id) of the sketch: idx >= 0 ? idx : 0
getThemeIndexByIdOfSketch(id) ==
  LET IsId(t) == t.id = id
      idx == FindIndex(THEME_LIST, IsId)
  IN  IF idx >= 0 THEN idx ELSE 0

setThemeByIndexOfSketch(sk, idx) ==
  [sk EXCEPT !.currentThemeId = At(THEME_LIST, clampInt(idx, 0, Len(THEME_LIST) - 1)).id]

getBackgroundPaletteOfSketch(sk) == <<"#000000">> \o getThemeColorsOfSketch(sk)

recalcGridDimsOfSketch(sk) ==
  LET cols == IF sk.aspectMode = "landscape" THEN RoundOneAndHalf(sk.gridSize) ELSE sk.gridSize
      rows == IF sk.aspectMode = "portrait" THEN RoundOneAndHalf(sk.gridSize) ELSE sk.gridSize
  IN  [sk EXCEPT !.gridCols = Max(2, cols), !.gridRows = Max(2, rows)]

\* generateHash() of the sketch: seed-theme-complexity-aspect-bgIndex
generateHashOfSketch(sk) ==
  LET themeIndex  == getThemeIndexByIdOfSketch(sk.currentThemeId)
      aspectIndex == IF sk.aspectMode = "square" THEN 0
                     ELSE IF sk.aspectMode = "landscape" THEN 1 ELSE 2
      bgPalette   == getBackgroundPaletteOfSketch(sk)
      SameBg(c)   == toLowerCase(c) = toLowerCase(sk.bgColor)
      found       == FindIndex(bgPalette, SameBg)
      bgIdx       == IF found < 0 THEN 0 ELSE found
  IN  join(<<toString36(sk.seed), toString36(themeIndex), toString36(sk.complexity),
             toString36(aspectIndex), toString36(bgIdx)>>, "-")

\* parseHash(hash) of the sketch: the value returned and the globals afterwards
parseHashOfSketch(sk, hash) ==
  LET parts == split(hash, "-")
  IN  IF Len(parts) < 3 THEN [ret |-> FALSE, sketch |-> sk]
      ELSE
      LET newSeed       == parseInt36(parts[1])
          themeIndex    == parseInt36(parts[2])
          newComplexity == parseInt36(parts[3])
          aspectIndex   == IF Len(parts) >= 4 THEN parseInt36(parts[4]) ELSE 0
          newBgIndex    == IF Len(parts) >= 5 THEN parseInt36(parts[5]) ELSE 0
      IN  IF isNaN(newSeed) \/ isNaN(themeIndex) \/ isNaN(newComplexity)
            THEN [ret |-> FALSE, sketch |-> sk]
          ELSE IF newComplexity < 1 \/ newComplexity > 5
            THEN [ret |-> FALSE, sketch |-> sk]
          ELSE IF themeIndex < 0 \/ themeIndex >= Len(THEME_LIST)
            THEN [ret |-> FALSE, sketch |-> sk]
          ELSE
          LET s1 == setThemeByIndexOfSketch([sk EXCEPT !.seed = newSeed], themeIndex)
              s2 == [s1 EXCEPT !.complexity = newComplexity,
                               !.aspectMode = IF aspectIndex = 1 THEN "landscape"
                                              ELSE IF aspectIndex = 2 THEN "portrait"
                                              ELSE "square"]
              bgPalette   == getBackgroundPaletteOfSketch(s2)
              safeBgIndex == clampInt(IF isNaN(newBgIndex) THEN 0 ELSE newBgIndex,
                                      0, Len(bgPalette) - 1)
          IN  [ret |-> TRUE, sketch |-> [s2 EXCEPT !.bgColor = At(bgPalette, safeBgIndex)]]

\* generatePattern() of the sketch, without its closing updateHashDisplay()
generatePatternOfSketch(sk) ==
  LET gridRes == sk.complexity + 1
  IN  [sk EXCEPT !.pattern = [gridRes |-> gridRes,
                              triangles |-> SeededTriangleLoop(sk.seed, gridRes).triangles]]

\* the theme change handler that also draws a new pattern
ThemeHandlerRegenerating(sk, themeId) ==
  LET s1 == [sk EXCEPT !.currentThemeId = themeId]
      s2 == IF \E i \in 1..6 : toLowerCase(getBackgroundPaletteOfSketch(s1)[i]) = toLowerCase(s1.bgColor)
            THEN s1 ELSE [s1 EXCEPT !.bgColor = "#000000"]
  IN  [sketch |-> generatePatternOfSketch(s2), calls |-> {"generatePattern", "redraw"}]

\* the change handler of the theme select: the globals afterwards and the
\* calls made
ThemeHandler(sk, themeId) ==
  LET s1 == [sk EXCEPT !.currentThemeId = themeId]
      s2 == IF \E i \in 1..6 : toLowerCase(getBackgroundPaletteOfSketch(s1)[i]) = toLowerCase(s1.bgColor)
            THEN s1 ELSE [s1 EXCEPT !.bgColor = "#000000"]
  IN  [sketch |-> s2, calls |-> {"redraw"}]

\* the values the controls of the sketch are given
SketchSeeds == {10, 47}
SketchComplexities == {1, 3}
SketchGridSizes == {3}
SketchTexts ==
  { <<"a","-","1","-","2">>,
    <<"1","b","-","6","-","5","-","2","-","3">>,
    <<"a","-","0","-","2","-","0","-","0","-","a">>,
    <<"a","-","7","-","2">>,
    <<>> }

\* a handler of the sketch ends: its globals, the seedHash field, the calls
LeaveSketch(op, sk, hashField, calls) ==
  /\ sketch' = sk
  /\ sketchHash' = hashField
  /\ sketchCalls' = calls
  /\ lastOp' = op
  /\ UNCHANGED <<state, codecVars, patVars, uiVars, expVars, favVars, btnVars, drawVars>>

InitSketch ==
  /\ state = state0
  /\ lastOp = "init"
  /\ FavIdle
  /\ canvas = <<>>
  /\ sigStyle = ""
  /\ SketchIdle
  /\ CodecIdle
  /\ PatternIdle
  /\ UIIdle

\* setup(): a random seed, generatePattern(), setupControls(),
\* recalcGridDims(), refreshThemeUI(), updateHashDisplay()
SketchSetup ==
  /\ sketch.pattern = NoPattern
  /\ \E seed \in SketchSeeds :
       \E sk \in { recalcGridDimsOfSketch(generatePatternOfSketch([sketch EXCEPT !.seed = seed])) } :
         LeaveSketch("setup", sk, generateHashOfSketch(sk), {"generatePattern"})

\* the input handler of the grid slider
SketchGridSlider ==
  /\ sketch.pattern # NoPattern
  /\ \E g \in SketchGridSizes :
       LeaveSketch("gridSlider", recalcGridDimsOfSketch([sketch EXCEPT !.gridSize = g]),
                   sketchHash, {"redraw"})

\* the change handler of the aspect select
SketchAspect ==
  /\ sketch.pattern # NoPattern
  /\ \E mode \in {"square", "landscape", "portrait"} :
       \E sk \in { recalcGridDimsOfSketch([sketch EXCEPT !.aspectMode = mode]) } :
         LeaveSketch("aspect", sk, generateHashOfSketch(sk), {"redraw"})

\* the change handler of the theme select, whose options are the catalog ids
SketchTheme ==
  /\ sketch.pattern # NoPattern
  /\ \E i \in 1..Len(THEME_LIST) :
       \E r \in { ThemeHandler(sketch, THEME_LIST[i].id) } :
         LeaveSketch("theme", r.sketch, generateHashOfSketch(r.sketch), r.calls)

\* the input handler of the complexity slider
SketchComplexity ==
  /\ sketch.pattern # NoPattern
  /\ \E c \in SketchComplexities :
       \E sk \in { generatePatternOfSketch([sketch EXCEPT !.complexity = c]) } :
         LeaveSketch("complexity", sk, generateHashOfSketch(sk), {"generatePattern", "redraw"})

\* the click handler of the generate button (and the n key)
SketchGenerate ==
  /\ sketch.pattern # NoPattern
  /\ \E seed \in SketchSeeds :
       \E sk \in { generatePatternOfSketch([sketch EXCEPT !.seed = seed]) } :
         LeaveSketch("generate", sk, generateHashOfSketch(sk), {"generatePattern", "redraw"})

\* the click handler of a background swatch
SketchBgSwatch ==
  /\ sketch.pattern # NoPattern
  /\ \E slot \in 1..6 :
       \E sk \in { [sketch EXCEPT !.bgColor = getBackgroundPaletteOfSketch(sketch)[slot]] } :
         LeaveSketch("bgSwatch", sk, generateHashOfSketch(sk), {"redraw"})

\* the click handler of the load button
SketchLoad ==
  /\ sketch.pattern # NoPattern
  /\ \E text \in SketchTexts :
       \E hash \in { trim(text) } :
         \E r \in { IF hash = <<>> THEN [ret |-> FALSE, sketch |-> sketch]
                    ELSE parseHashOfSketch(sketch, hash) } :
           IF r.ret
           THEN \E sk \in { generatePatternOfSketch(recalcGridDimsOfSketch(r.sketch)) } :
                  LeaveSketch("load", sk, generateHashOfSketch(sk), {"generatePattern", "redraw"})
           ELSE LeaveSketch("loadRejected", sketch, sketchHash, {})

NextSketch ==
  \/ SketchSetup
  \/ SketchGridSlider
  \/ SketchAspect
  \/ SketchTheme
  \/ SketchComplexity
  \/ SketchGenerate
  \/ SketchBgSwatch
  \/ SketchLoad

SpecSketch == InitSketch /\ [][NextSketch]_vars

\* the ids of the catalog
CatalogIds == { THEME_LIST[i].id : i \in 1..Len(THEME_LIST) }

\* C31: in every state, the initial one included, the theme id of the state
\* object and the theme id of the single-file sketch are ids of entries of
\* THEME_LIST, and the theme index generateHash writes names the entry with
\* that id
ThemeIdInCatalog ==
  /\ state.themeId \in CatalogIds
  /\ At(THEME_LIST, getThemeIndexById(state.themeId)).id = state.themeId
  /\ sketch.currentThemeId \in CatalogIds
  /\ At(THEME_LIST, getThemeIndexByIdOfSketch(sketch.currentThemeId)).id = sketch.currentThemeId

\* the same for the state object alone
StateThemeIdInCatalog ==
  /\ state.themeId \in CatalogIds
  /\ At(THEME_LIST, getThemeIndexById(state.themeId)).id = state.themeId

\* the same for the sketch once a theme was selected or a hash loaded
SketchThemeIdInCatalogOnceSet ==
  sketch.currentThemeId # sketch0.currentThemeId =>
    /\ sketch.currentThemeId \in CatalogIds
    /\ At(THEME_LIST, getThemeIndexByIdOfSketch(sketch.currentThemeId)).id = sketch.currentThemeId

\* ---------------------------------------------------------------------------
\* The segments of a hash after the third
\* ---------------------------------------------------------------------------

\* C32: a hash whose first three segments pass validation is accepted
\* whatever its later segments hold; an aspect segment that holds no number
\* or a number other than 1 and 2 decodes to square, a background segment
\* that holds no number to index 0 and one above 5 to index 5 of the palette
\* of the decoded theme, a signature segment that holds no number to auto
TailNeverRejects ==
  (lastOp = "parse" /\ FirstThreeValid) =>
    LET parts   == Parts
        palette == <<"#000000">> \o THEME_LIST[parseInt36(parts[2]) + 1].colors
        aspect  == IF Len(parts) >= 4 THEN parseInt36(parts[4]) ELSE 0
        bg      == IF Len(parts) >= 5 THEN parseInt36(parts[5]) ELSE 0
    IN  /\ ret = TRUE
        /\ state.aspectMode = (IF aspect = 1 THEN "landscape"
                               ELSE IF aspect = 2 THEN "portrait" ELSE "square")
        /\ isNaN(bg) => state.bgColor = palette[1]
        /\ bg > 5 => state.bgColor = palette[6]
        /\ (Len(parts) >= 6 /\ isNaN(parseInt36(parts[6]))) => state.sigColor = null

\* a text of eight segments was accepted whose aspect segment is 7, whose
\* background segment is 6 and whose signature segment holds no digit
TailNeverRejectsWitness ==
  /\ lastOp = "parse"
  /\ ret = TRUE
  /\ Len(split(hashText, "-")) = 8
  /\ parseInt36(split(hashText, "-")[4]) = 7
  /\ parseInt36(split(hashText, "-")[5]) = 6
  /\ isNaN(parseInt36(split(hashText, "-")[6]))
  /\ state.aspectMode = "square"
  /\ state.bgColor = THEME_LIST[6].colors[5]
  /\ state.sigColor = null
  /\ before.aspectMode = "landscape"
  /\ before.sigColor # null

\* ---------------------------------------------------------------------------
\* toggleFavorite and the favorites calls that fail
\* ---------------------------------------------------------------------------

\* the hashes of the records of a list
HashesOf(cache) == { cache[i].hash : i \in 1..Len(cache) }

\* cache without its record number i
Without(cache, i) == SubSeq(cache, 1, i - 1) \o SubSeq(cache, i + 1, Len(cache))

\* C33: toggleFavorite leaves the configuration alone and flips the
\* membership of its hash: a listed hash loses its record and every other
\* record stays as it is, in order; an unlisted hash gets one record at the end
\* and no record changes; the second of two toggles in a row leaves the set of
\* hashes the list had before the first
ToggleFlips ==
  [][ lastOp' \in {"toggleOn", "toggleOff"} =>
        LET h == generateHash(state)
        IN  /\ state' = state
            /\ IF h \in ListedHashes
               THEN /\ h \notin HashesOf(favoritesCache')
                    /\ \E i \in 1..Len(favoritesCache) :
                         /\ favoritesCache[i].hash = h
                         /\ favoritesCache' = Without(favoritesCache, i)
               ELSE /\ Len(favoritesCache') = Len(favoritesCache) + 1
                    /\ SubSeq(favoritesCache', 1, Len(favoritesCache)) = favoritesCache
                    /\ favoritesCache'[Len(favoritesCache')].hash = h
            /\ lastOp \in {"toggleOn", "toggleOff"} =>
                 HashesOf(favoritesCache') = HashesOf(favPrev) ]_vars

\* a toggle has taken the current configuration's record out of a list that
\* keeps another record, and the store holds the shorter list
ToggleFlipsWitness ==
  /\ lastOp = "toggleOff"
  /\ Len(favPrev) >= 2
  /\ generateHash(state) \in HashesOf(favPrev)
  /\ generateHash(state) \notin ListedHashes
  /\ Len(favoritesCache) = Len(favPrev) - 1
  /\ favStored = saveFavoritesToStorage(favoritesCache)

\* C34: removeFavorite and renameFavorite called with a hash that is not in
\* the list, and addFavorite called while the hash of the configuration is in
\* the list, return false and leave the list and the stored item as they were
FailedCallsChangeNothing ==
  [][ (\/ /\ lastOp' \in {"removeFavorite", "removeFavoriteRejected",
                          "renameFavorite", "renameFavoriteRejected"}
          /\ favArg' \notin ListedHashes
       \/ /\ lastOp' \in {"addFavorite", "addFavoriteRejected"}
          /\ generateHash(state) \in ListedHashes)
      => /\ favRet' = FALSE
         /\ favoritesCache' = favoritesCache
         /\ favStored' = favStored ]_vars

\* removeFavorite was called with a hash no record has, on a list of two
\* records: it returned false and the list and the store are as before
FailedCallsChangeNothingWitness ==
  /\ lastOp = "removeFavoriteRejected"
  /\ favArg \notin ListedHashes
  /\ favRet = FALSE
  /\ Len(favoritesCache) = 2
  /\ favoritesCache = favPrev
  /\ favStored = saveFavoritesToStorage(favoritesCache)

\* C35: drawCell never runs while state.pattern is null: no draw that a
\* handler or the setup causes, and no windowResized callback, reads the
\* state object before the first generatePattern call of window.setup
PatternExistsAtDraw ==
  \A d \in drawLog : d.pattern # NoPattern

\* the draws between the await of window.setup and its generatePattern call
\* are the only ones that read a null pattern
PatternExistsOnceReady ==
  Ready => \A d \in drawLog : d.pattern # NoPattern

\* the window was resized while window.setup waits for loadFavorites, in a
\* build that draws inside redraw(): draw has read the null pattern
NullPatternDrawnOnResize ==
  /\ phase = "awaitFavorites"
  /\ lastOp = "windowResized"
  /\ state.pattern = NoPattern
  /\ drawLog = { Snap(state) }

(***************************************************************************)
(* SpecExportEvents: exportHighRes together with the handlers that can     *)
(* run while it is suspended at one of its awaits.                         *)
(***************************************************************************)
\* window.windowResized while the save section is in use: resizeToAspect()
\* sets the canvas to getCanvasSizeForAspect(), then redraw()
ExportWindowResized ==
  /\ canvasSize' = getCanvasSizeForAspect(state, WindowHeight)
  /\ drawLog' = Draws(<<state, state>>, state)
  /\ changed' = {}
  /\ lastOp' = "windowResized"
  /\ UNCHANGED <<state, codecVars, patVars, p5SyncRedraw, phase, bgSwatches, sigSwatches,
                 seedHash, urlHash, styles, exports, saveHidden, html2canvas, domMissing,
                 favVars, btnVars, drawVars, sketchVars>>

\* setAspect(mode) of the aspect buttons, with the canvas its onResize() sets
ExportSetAspect(Modes) ==
  /\ \E mode \in Modes :
       /\ state.aspectMode # mode
       /\ \E final \in { recalcGridDims([state EXCEPT !.aspectMode = mode]) } :
            /\ state' = final
            /\ canvasSize' = getCanvasSizeForAspect(final, WindowHeight)
            /\ drawLog' = Draws(<<final, final>>, final)
            /\ changed' = Changed(state, final)
            /\ RefreshThemeUI(final)
            /\ syncHashToUrl(final)
            /\ favActive' = updateFavoriteButton(favoritesCache, final, favActive)
  /\ lastOp' = "setAspect"
  /\ UNCHANGED <<codecVars, patVars, p5SyncRedraw, phase, seedHash, styles, exports,
                 saveHidden, html2canvas, domMissing, favVars, drawVars, sketchVars>>

\* the aspect buttons clicked during an export
ExportAspects == {"square", "landscape"}

NextExportEvents ==
  \/ SaveClick
  \/ CancelSave
  \/ ConfirmSave
  \/ LayoutSettled
  \/ CaptureResolved
  \/ CaptureRejected
  \/ ExportWindowResized
  \/ ExportSetAspect(ExportAspects)

SpecExportEvents == InitExport /\ [][NextExportEvents]_vars

\* C36: while an export is suspended at its layout-settle await or at its
\* capture await, the canvas has the size (cw, ch) that this export set: no
\* other handler changes the canvas size before the capture is taken
ExportIsolated ==
  \A i \in InFlight : canvasSize = exports[i].set

\* the same for an export that is the only call of exportHighRes
LoneExportIsolated ==
  (Len(exports) = 1 /\ InFlight = {1}) => canvasSize = exports[1].set

\* the window was resized while the only export waits for its two animation
\* frames: the canvas is back at its page size before html2canvas is called
ResizedDuringExport ==
  /\ Len(exports) = 1
  /\ exports[1].pc = "layout"
  /\ lastOp = "windowResized"
  /\ canvasSize = getCanvasSizeForAspect(state, WindowHeight)
  /\ canvasSize # exports[1].set

(***************************************************************************)
(* SpecButton: the controls that change the hash and the handlers that     *)
(* change the favorites list, with a list that holds several records.      *)
(***************************************************************************)
\* the favorites list the store hands out: three records (another theme,
\* the short hash format, the first configuration)
ButtonFavorites ==
  LET Rec(h, n) == [hash |-> h, name |-> n, date |-> "2025-01-01"]
  IN  { << Rec(<<"a","-","1","-","2","-","0","-","0","-","a">>, "Ocean"),
           Rec(<<"a","-","0","-","2">>, "Short"),
           Rec(<<"a","-","0","-","2","-","0","-","0","-","a">>, "") >> }

ButtonThemes == {"olives", "oceanFire"}
ButtonAspects == {"square", "landscape"}
ButtonComplexities == {2, 3}
ButtonSeeds == {47}
ButtonSlots == {2}
ButtonTexts ==
  { <<"a","-","0","-","3","-","1","-","0","-","a">>,
    <<"a","-","7","-","2">> }

\* the configurations on screen when a control or the favorite button is
\* used: the first one and its neighbour in the theme select
OnBase ==
  generateHash(state) \in { <<"a","-","0","-","2","-","0","-","0","-","a">>,
                            <<"a","-","1","-","2","-","0","-","0","-","a">> }

\* the page after window.setup, which ends with updateFavoriteButton()
InitButton ==
  /\ state = generatePattern(recalcGridDims([state0 EXCEPT !.seed = 10]), <<0, 0>>).state
  /\ lastOp = "ready"
  /\ favoritesCache \in ButtonFavorites
  /\ favStored = saveFavoritesToStorage(favoritesCache)
  /\ favRet = FALSE
  /\ favPrev = favoritesCache
  /\ favArg = <<>>
  /\ favActive = updateFavoriteButton(favoritesCache, state, FALSE)
  /\ canvas = <<>>
  /\ sigStyle = ""
  /\ SketchIdle
  /\ CodecIdle
  /\ PatternIdle
  /\ ExportIdle
  /\ p5SyncRedraw \in BOOLEAN
  /\ phase = "ready"
  /\ drawLog = {}
  /\ changed = {}
  /\ bgSwatches = getBackgroundPalette(state)
  /\ sigSwatches = getSignaturePalette(state)
  /\ seedHash = generateHash(state)
  /\ urlHash = generateHash(state)

NextButton ==
  \/ OnBase /\ ThemeSelect(ButtonThemes)
  \/ OnBase /\ SetAspect(ButtonAspects)
  \/ OnBase /\ ComplexitySlider(ButtonComplexities)
  \/ OnBase /\ GenerateClick(ButtonSeeds)
  \/ OnBase /\ BgSwatchClick(ButtonSlots)
  \/ OnBase /\ SigSwatchClick(ButtonSlots)
  \/ SigAutoClick
  \/ OnBase /\ LoadClick(ButtonTexts)
  \/ LoadFavorite(ListedHashes)
  \/ OnBase /\ ToggleFavorite
  \/ OnBase /\ RemoveFavoriteCall(ListedHashes)

SpecButton == InitButton /\ [][NextButton]_vars

\* the handlers that change the favorites list and end with
\* updateFavoriteButton(): toggleFavorite and the delete handler
ListHandlers == {"toggleOn", "toggleOff", "removeFavorite", "removeFavoriteRejected"}

\* C37: at the end of every handler that changes the hash (theme, aspect,
\* complexity, generate, background swatch, signature swatch, hash load,
\* favorite load) or the favorites list (toggle, delete in the gallery), the
\* favorite button is active exactly when the hash of the current
\* configuration is the hash of a record of the favorites list
FavoriteButtonCurrent ==
  lastOp \in UpdatesFavoriteButton \cup ListHandlers =>
    (favActive <=> generateHash(state) \in ListedHashes)

\* the theme select has moved the configuration from one that is no favorite
\* onto the second of two records, and the button has become active
FavoriteButtonCurrentWitness ==
  /\ lastOp = "themeSelect"
  /\ "themeId" \in changed
  /\ Len(favoritesCache) = 2
  /\ urlHash = favoritesCache[2].hash
  /\ seedHash \notin ListedHashes
  /\ favActive

\* a record was deleted in the gallery while its configuration is on screen,
\* and the button is no longer active
ButtonOffAfterDelete ==
  /\ lastOp = "removeFavorite"
  /\ favArg = generateHash(state)
  /\ generateHash(state) \notin ListedHashes
  /\ ~favActive

\* ---------------------------------------------------------------------------
\* Theme changes
\* ---------------------------------------------------------------------------
\* what a theme change has to leave alone
ShapeFields == {"seed", "complexity", "aspectMode", "gridSize", "gridCols", "gridRows", "pattern"}

\* C38: a theme change only recolors: the change handler of the theme select
\* leaves seed, complexity, aspectMode, gridSize, gridCols, gridRows and the
\* stored pattern as they were and does not call generatePattern
ThemeOnlyRecolors ==
  [][ lastOp' = "theme" =>
        /\ \A f \in ShapeFields : sketch'[f] = sketch[f]
        /\ "generatePattern" \notin sketchCalls' ]_vars

\* a theme was selected for a pattern of complexity 3 that the seed 47 gave:
\* the pattern is still the one generatePattern stores for them
ThemeOnlyRecolorsWitness ==
  /\ lastOp = "theme"
  /\ sketch.currentThemeId = "oceanFire"
  /\ sketch.seed = 47
  /\ sketch.complexity = 3
  /\ sketch.pattern = generatePatternOfSketch(sketch).pattern
  /\ sketchCalls = {"redraw"}

\* the same for applyTheme of the controls module (theme select, next-theme
\* and random-theme buttons): the state object keeps its shape fields and
\* the random stream is not drawn from
ApplyThemeOnlyRecolors ==
  [][ lastOp' \in {"themeSelect", "nextTheme", "randomTheme"} =>
        /\ \A f \in ShapeFields : state'[f] = state[f]
        /\ rngState' = rngState ]_vars

====
